---- MODULE Spec2Model ----
(***************************************************************************)
(* AES-128 with a first-order Boolean-masked S-box (aes.c): the bitsliced  *)
(* masked S-box circuit, the key schedule, the round transforms, the       *)
(* forward and inverse cipher, and the ECB / CBC drivers working on the    *)
(* caller's memory through the file-scope RoundKey, Key and Iv.            *)
(***************************************************************************)
EXTENDS Integers, Sequences, FiniteSets, TLC

(***************************************************************************)
(* uint8_t arithmetic.  C's ^ and & on bytes, tabulated once.              *)
(***************************************************************************)
Byte == 0..255

RECURSIVE XorN(_, _, _)
XorN(a, b, n) ==
  IF n = 0 THEN 0 ELSE ((a + b) % 2) + 2 * XorN(a \div 2, b \div 2, n - 1)

RECURSIVE AndN(_, _, _)
AndN(a, b, n) ==
  IF n = 0 THEN 0 ELSE ((a % 2) * (b % 2)) + 2 * AndN(a \div 2, b \div 2, n - 1)

XorTab == [a \in Byte |-> [b \in Byte |-> XorN(a, b, 8)]]

AndTab == [a \in Byte |-> [b \in Byte |-> AndN(a, b, 8)]]

Xor(a, b) == XorTab[a][b]

And(a, b) == AndTab[a][b]

\* ~ that leaves its operand as it is
Not_dropped(a) == a

\* ~x stored back into a uint8_t
Not(a) == 255 - a

Pow2 == << 1, 2, 4, 8, 16, 32, 64, 128 >>

\* x >> k on a uint8_t, 0 <= k <= 7
ShiftR(a, k) == a \div Pow2[k + 1]

(***************************************************************************)
(* Tab(f) is f.  Comparing f with itself makes TLC tabulate a function     *)
(* written as [k \in S |-> e] once, instead of evaluating e at every use.  *)
(***************************************************************************)
Tab(f) == IF f = f THEN f ELSE f

\* After(v, e) is e.  It makes TLC compute v before it starts on e, which
\* keeps the evaluation of a loop from nesting one iteration in the next.
After(v, e) == IF v = v THEN e ELSE e

(***************************************************************************)
(* Defines and lookup tables.                                              *)
(***************************************************************************)
Nb == 4

Nk == 4

KEYLEN == 16

Nr == 10

sbox ==
  << 99, 124, 119, 123, 242, 107, 111, 197, 48, 1, 103, 43, 254, 215, 171, 118,
     202, 130, 201, 125, 250, 89, 71, 240, 173, 212, 162, 175, 156, 164, 114, 192,
     183, 253, 147, 38, 54, 63, 247, 204, 52, 165, 229, 241, 113, 216, 49, 21,
     4, 199, 35, 195, 24, 150, 5, 154, 7, 18, 128, 226, 235, 39, 178, 117,
     9, 131, 44, 26, 27, 110, 90, 160, 82, 59, 214, 179, 41, 227, 47, 132,
     83, 209, 0, 237, 32, 252, 177, 91, 106, 203, 190, 57, 74, 76, 88, 207,
     208, 239, 170, 251, 67, 77, 51, 133, 69, 249, 2, 127, 80, 60, 159, 168,
     81, 163, 64, 143, 146, 157, 56, 245, 188, 182, 218, 33, 16, 255, 243, 210,
     205, 12, 19, 236, 95, 151, 68, 23, 196, 167, 126, 61, 100, 93, 25, 115,
     96, 129, 79, 220, 34, 42, 144, 136, 70, 238, 184, 20, 222, 94, 11, 219,
     224, 50, 58, 10, 73, 6, 36, 92, 194, 211, 172, 98, 145, 149, 228, 121,
     231, 200, 55, 109, 141, 213, 78, 169, 108, 86, 244, 234, 101, 122, 174, 8,
     186, 120, 37, 46, 28, 166, 180, 198, 232, 221, 116, 31, 75, 189, 139, 138,
     112, 62, 181, 102, 72, 3, 246, 14, 97, 53, 87, 185, 134, 193, 29, 158,
     225, 248, 152, 17, 105, 217, 142, 148, 155, 30, 135, 233, 206, 85, 40, 223,
     140, 161, 137, 13, 191, 230, 66, 104, 65, 153, 45, 15, 176, 84, 187, 22 >>

rsbox ==
  << 82, 9, 106, 213, 48, 54, 165, 56, 191, 64, 163, 158, 129, 243, 215, 251,
     124, 227, 57, 130, 155, 47, 255, 135, 52, 142, 67, 68, 196, 222, 233, 203,
     84, 123, 148, 50, 166, 194, 35, 61, 238, 76, 149, 11, 66, 250, 195, 78,
     8, 46, 161, 102, 40, 217, 36, 178, 118, 91, 162, 73, 109, 139, 209, 37,
     114, 248, 246, 100, 134, 104, 152, 22, 212, 164, 92, 204, 93, 101, 182, 146,
     108, 112, 72, 80, 253, 237, 185, 218, 94, 21, 70, 87, 167, 141, 157, 132,
     144, 216, 171, 0, 140, 188, 211, 10, 247, 228, 88, 5, 184, 179, 69, 6,
     208, 44, 30, 143, 202, 63, 15, 2, 193, 175, 189, 3, 1, 19, 138, 107,
     58, 145, 17, 65, 79, 103, 220, 234, 151, 242, 207, 206, 240, 180, 230, 115,
     150, 172, 116, 34, 231, 173, 53, 133, 226, 249, 55, 232, 28, 117, 223, 110,
     71, 241, 26, 113, 29, 41, 197, 137, 111, 183, 98, 14, 170, 24, 190, 27,
     252, 86, 62, 75, 198, 210, 121, 32, 154, 219, 192, 254, 120, 205, 90, 244,
     31, 221, 168, 51, 136, 7, 199, 49, 177, 18, 16, 89, 39, 128, 236, 95,
     96, 81, 127, 169, 25, 181, 74, 13, 45, 229, 122, 159, 147, 201, 156, 239,
     160, 224, 59, 77, 174, 42, 245, 176, 200, 235, 187, 60, 131, 83, 153, 97,
     23, 43, 4, 126, 186, 119, 214, 38, 225, 105, 20, 99, 85, 33, 12, 125 >>

Rcon ==
  << 141, 1, 2, 4, 8, 16, 32, 64, 128, 27, 54, 108, 216, 171, 77, 154,
     47, 94, 188, 99, 198, 151, 53, 106, 212, 179, 125, 250, 239, 197, 145, 57,
     114, 228, 211, 189, 97, 194, 159, 37, 74, 148, 51, 102, 204, 131, 29, 58,
     116, 232, 203, 141, 1, 2, 4, 8, 16, 32, 64, 128, 27, 54, 108, 216,
     171, 77, 154, 47, 94, 188, 99, 198, 151, 53, 106, 212, 179, 125, 250, 239,
     197, 145, 57, 114, 228, 211, 189, 97, 194, 159, 37, 74, 148, 51, 102, 204,
     131, 29, 58, 116, 232, 203, 141, 1, 2, 4, 8, 16, 32, 64, 128, 27,
     54, 108, 216, 171, 77, 154, 47, 94, 188, 99, 198, 151, 53, 106, 212, 179,
     125, 250, 239, 197, 145, 57, 114, 228, 211, 189, 97, 194, 159, 37, 74, 148,
     51, 102, 204, 131, 29, 58, 116, 232, 203, 141, 1, 2, 4, 8, 16, 32,
     64, 128, 27, 54, 108, 216, 171, 77, 154, 47, 94, 188, 99, 198, 151, 53,
     106, 212, 179, 125, 250, 239, 197, 145, 57, 114, 228, 211, 189, 97, 194, 159,
     37, 74, 148, 51, 102, 204, 131, 29, 58, 116, 232, 203, 141, 1, 2, 4,
     8, 16, 32, 64, 128, 27, 54, 108, 216, 171, 77, 154, 47, 94, 188, 99,
     198, 151, 53, 106, 212, 179, 125, 250, 239, 197, 145, 57, 114, 228, 211, 189,
     97, 194, 159, 37, 74, 148, 51, 102, 204, 131, 29, 58, 116, 232, 203 >>
(***************************************************************************)
(* The masked AND gadget: value share z and mask share m.                  *)
(***************************************************************************)
\* SAND without the 0xff in the mask share
SAND_unbalanced(p1, p2, q1, q2) ==
  LET r == 255
      n1 == And(p1, q1)
      n11 == And(p2, q2)
      n2 == And(p2, q1)
      n3 == And(p1, q2)
      n4 == Xor(r, n1)
      m == Xor(n2, n11)
      z == Xor(n3, n4)
  IN  [z |-> z, m |-> m]

\* _SAND without the product of p1 and q2
SAND_nocross(p1, p2, q1, q2) ==
  LET r == 255
      n1 == And(p1, q1)
      n11 == And(p2, q2)
      n2 == And(p2, q1)
      n4 == Xor(r, n1)
      m == Xor(Xor(n2, n11), r)
  IN  [z |-> n4, m |-> m]

SAND(p1, p2, q1, q2) ==
  LET r == 255
      n1 == And(p1, q1)
      n11 == And(p2, q2)
      n2 == And(p2, q1)
      n3 == And(p1, q2)
      n4 == Xor(r, n1)
      m == Xor(Xor(n2, n11), r)
      z == Xor(n3, n4)
  IN  [z |-> z, m |-> m]

getSBoxValue(num) == sbox[num + 1]

(***************************************************************************)
(* The masked S-box circuit.  num is the value share, numm the mask share  *)
(* the caller passes by pointer; the result is the returned byte t and the *)
(* byte tm written back through the pointer.                               *)
(*                                                                         *)
(* The body is a straight-line program on word_t locals.  e holds the      *)
(* locals by name (a local holds 0 until its first assignment, and the     *)
(* code reads none before that).  SboxStep(k, e) is the k-th run of        *)
(* consecutive statements in which no statement reads or rewrites a local  *)
(* an earlier statement of the run assigns, so that the statements of a    *)
(* run all read the locals as they are when the run starts.                *)
(***************************************************************************)
SboxLocals(num, numm) ==
  [ num |-> num, numm |-> numm, U_0 |-> 0, U_1 |-> 0, U_2 |-> 0, U_3 |-> 0,
    U_4 |-> 0, U_5 |-> 0, U_6 |-> 0, U_7 |-> 0, U_0m |-> 0, U_1m |-> 0,
    U_2m |-> 0, U_3m |-> 0, U_4m |-> 0, U_5m |-> 0, U_6m |-> 0, U_7m |-> 0,
    T1 |-> 0, T1m |-> 0, T2 |-> 0, T2m |-> 0, T3 |-> 0, T3m |-> 0, T4 |-> 0,
    T4m |-> 0, T5 |-> 0, T5m |-> 0, T6 |-> 0, T6m |-> 0, T7 |-> 0, T7m |-> 0,
    T8 |-> 0, T8m |-> 0, T9 |-> 0, T9m |-> 0, T10 |-> 0, T10m |-> 0,
    T11 |-> 0, T11m |-> 0, T12 |-> 0, T12m |-> 0, T13 |-> 0, T13m |-> 0,
    T14 |-> 0, T14m |-> 0, T15 |-> 0, T15m |-> 0, T16 |-> 0, T16m |-> 0,
    T17 |-> 0, T17m |-> 0, T18 |-> 0, T18m |-> 0, T19 |-> 0, T19m |-> 0,
    T20 |-> 0, T20m |-> 0, T21 |-> 0, T21m |-> 0, T22 |-> 0, T22m |-> 0,
    T23 |-> 0, T23m |-> 0, T24 |-> 0, T24m |-> 0, T25 |-> 0, T25m |-> 0,
    T26 |-> 0, T26m |-> 0, T27 |-> 0, T27m |-> 0, M1 |-> 0, M1m |-> 0,
    M2 |-> 0, M2m |-> 0, M3 |-> 0, M3m |-> 0, M4 |-> 0, M4m |-> 0, M5 |-> 0,
    M5m |-> 0, M6 |-> 0, M6m |-> 0, M7 |-> 0, M7m |-> 0, M8 |-> 0, M8m |-> 0,
    M9 |-> 0, M9m |-> 0, M10 |-> 0, M10m |-> 0, M11 |-> 0, M11m |-> 0,
    M12 |-> 0, M12m |-> 0, M13 |-> 0, M13m |-> 0, M14 |-> 0, M14m |-> 0,
    M15 |-> 0, M15m |-> 0, M16 |-> 0, M16m |-> 0, M17 |-> 0, M17m |-> 0,
    M18 |-> 0, M18m |-> 0, M19 |-> 0, M19m |-> 0, M20 |-> 0, M20m |-> 0,
    M21 |-> 0, M21m |-> 0, M22 |-> 0, M22m |-> 0, M23 |-> 0, M23m |-> 0,
    M24 |-> 0, M24m |-> 0, M25 |-> 0, M25m |-> 0, M26 |-> 0, M26m |-> 0,
    M27 |-> 0, M27m |-> 0, M28 |-> 0, M28m |-> 0, M29 |-> 0, M29m |-> 0,
    M30 |-> 0, M30m |-> 0, M31 |-> 0, M31m |-> 0, M32 |-> 0, M32m |-> 0,
    M33 |-> 0, M33m |-> 0, M34 |-> 0, M34m |-> 0, M35 |-> 0, M35m |-> 0,
    M36 |-> 0, M36m |-> 0, M37 |-> 0, M37m |-> 0, M38 |-> 0, M38m |-> 0,
    M39 |-> 0, M39m |-> 0, M40 |-> 0, M40m |-> 0, M41 |-> 0, M41m |-> 0,
    M42 |-> 0, M42m |-> 0, M43 |-> 0, M43m |-> 0, M44 |-> 0, M44m |-> 0,
    M45 |-> 0, M45m |-> 0, M46 |-> 0, M46m |-> 0, M47 |-> 0, M47m |-> 0,
    M48 |-> 0, M48m |-> 0, M49 |-> 0, M49m |-> 0, M50 |-> 0, M50m |-> 0,
    M51 |-> 0, M51m |-> 0, M52 |-> 0, M52m |-> 0, M53 |-> 0, M53m |-> 0,
    M54 |-> 0, M54m |-> 0, M55 |-> 0, M55m |-> 0, M56 |-> 0, M56m |-> 0,
    M57 |-> 0, M57m |-> 0, M58 |-> 0, M58m |-> 0, M59 |-> 0, M59m |-> 0,
    M60 |-> 0, M60m |-> 0, M61 |-> 0, M61m |-> 0, M62 |-> 0, M62m |-> 0,
    M63 |-> 0, M63m |-> 0, L0 |-> 0, L0m |-> 0, L1 |-> 0, L1m |-> 0,
    L2 |-> 0, L2m |-> 0, L3 |-> 0, L3m |-> 0, L4 |-> 0, L4m |-> 0, L5 |-> 0,
    L5m |-> 0, L6 |-> 0, L6m |-> 0, L7 |-> 0, L7m |-> 0, L8 |-> 0, L8m |-> 0,
    L9 |-> 0, L9m |-> 0, L10 |-> 0, L10m |-> 0, L11 |-> 0, L11m |-> 0,
    L12 |-> 0, L12m |-> 0, L13 |-> 0, L13m |-> 0, L14 |-> 0, L14m |-> 0,
    L15 |-> 0, L15m |-> 0, L16 |-> 0, L16m |-> 0, L17 |-> 0, L17m |-> 0,
    L18 |-> 0, L18m |-> 0, L19 |-> 0, L19m |-> 0, L20 |-> 0, L20m |-> 0,
    L21 |-> 0, L21m |-> 0, L22 |-> 0, L22m |-> 0, L23 |-> 0, L23m |-> 0,
    L24 |-> 0, L24m |-> 0, L25 |-> 0, L25m |-> 0, L26 |-> 0, L26m |-> 0,
    L27 |-> 0, L27m |-> 0, L28 |-> 0, L28m |-> 0, L29 |-> 0, L29m |-> 0 ]

SboxSteps == 32

SboxStep(k, e) ==
  CASE k = 1 ->   \* aes.c 172-188
         [e EXCEPT !.U_0 = ShiftR(e.num, 0),
                   !.U_1 = ShiftR(e.num, 1),
                   !.U_2 = ShiftR(e.num, 2),
                   !.U_3 = ShiftR(e.num, 3),
                   !.U_4 = ShiftR(e.num, 4),
                   !.U_5 = ShiftR(e.num, 5),
                   !.U_6 = ShiftR(e.num, 6),
                   !.U_7 = ShiftR(e.num, 7),
                   !.U_0m = ShiftR(e.numm, 0),
                   !.U_1m = ShiftR(e.numm, 1),
                   !.U_2m = ShiftR(e.numm, 2),
                   !.U_3m = ShiftR(e.numm, 3),
                   !.U_4m = ShiftR(e.numm, 4),
                   !.U_5m = ShiftR(e.numm, 5),
                   !.U_6m = ShiftR(e.numm, 6),
                   !.U_7m = ShiftR(e.numm, 7)]
    [] k = 2 ->   \* aes.c 249-258
         [e EXCEPT !.T1 = Xor(e.U_7, e.U_4),
                   !.T1m = Xor(e.U_7m, e.U_4m),
                   !.T2 = Xor(e.U_7, e.U_2),
                   !.T2m = Xor(e.U_7m, e.U_2m),
                   !.T3 = Xor(e.U_7, e.U_1),
                   !.T3m = Xor(e.U_7m, e.U_1m),
                   !.T4 = Xor(e.U_4, e.U_2),
                   !.T4m = Xor(e.U_4m, e.U_2m),
                   !.T5 = Xor(e.U_3, e.U_1),
                   !.T5m = Xor(e.U_3m, e.U_1m)]
    [] k = 3 ->   \* aes.c 259-262
         [e EXCEPT !.T6 = Xor(e.T1, e.T5),
                   !.T6m = Xor(e.T1m, e.T5m),
                   !.T7 = Xor(e.U_6, e.U_5),
                   !.T7m = Xor(e.U_6m, e.U_5m)]
    [] k = 4 ->   \* aes.c 263-274
         [e EXCEPT !.T8 = Xor(e.U_0, e.T6),
                   !.T8m = Xor(e.U_0m, e.T6m),
                   !.T9 = Xor(e.U_0, e.T7),
                   !.T9m = Xor(e.U_0m, e.T7m),
                   !.T10 = Xor(e.T6, e.T7),
                   !.T10m = Xor(e.T6m, e.T7m),
                   !.T11 = Xor(e.U_6, e.U_2),
                   !.T11m = Xor(e.U_6m, e.U_2m),
                   !.T12 = Xor(e.U_5, e.U_2),
                   !.T12m = Xor(e.U_5m, e.U_2m),
                   !.T13 = Xor(e.T3, e.T4),
                   !.T13m = Xor(e.T3m, e.T4m)]
    [] k = 5 ->   \* aes.c 275-280
         [e EXCEPT !.T14 = Xor(e.T6, e.T11),
                   !.T14m = Xor(e.T6m, e.T11m),
                   !.T15 = Xor(e.T5, e.T11),
                   !.T15m = Xor(e.T5m, e.T11m),
                   !.T16 = Xor(e.T5, e.T12),
                   !.T16m = Xor(e.T5m, e.T12m)]
    [] k = 6 ->   \* aes.c 281-284
         [e EXCEPT !.T17 = Xor(e.T9, e.T16),
                   !.T17m = Xor(e.T9m, e.T16m),
                   !.T18 = Xor(e.U_4, e.U_0),
                   !.T18m = Xor(e.U_4m, e.U_0m)]
    [] k = 7 ->   \* aes.c 285-286
         [e EXCEPT !.T19 = Xor(e.T7, e.T18),
                   !.T19m = Xor(e.T7m, e.T18m)]
    [] k = 8 ->   \* aes.c 287-290
         [e EXCEPT !.T20 = Xor(e.T1, e.T19),
                   !.T20m = Xor(e.T1m, e.T19m),
                   !.T21 = Xor(e.U_1, e.U_0),
                   !.T21m = Xor(e.U_1m, e.U_0m)]
    [] k = 9 ->   \* aes.c 291-292
         [e EXCEPT !.T22 = Xor(e.T7, e.T21),
                   !.T22m = Xor(e.T7m, e.T21m)]
    [] k = 10 ->   \* aes.c 293-305
         [e EXCEPT !.T23 = Xor(e.T2, e.T22),
                   !.T23m = Xor(e.T2m, e.T22m),
                   !.T24 = Xor(e.T2, e.T10),
                   !.T24m = Xor(e.T2m, e.T10m),
                   !.T25 = Xor(e.T20, e.T17),
                   !.T25m = Xor(e.T20m, e.T17m),
                   !.T26 = Xor(e.T3, e.T16),
                   !.T26m = Xor(e.T3m, e.T16m),
                   !.T27 = Xor(e.T1, e.T12),
                   !.T27m = Xor(e.T1m, e.T12m),
                   !.M1 = SAND(e.T13, e.T13m, e.T6, e.T6m).z,
                   !.M1m = SAND(e.T13, e.T13m, e.T6, e.T6m).m]
    [] k = 11 ->   \* aes.c 308-314
         [e EXCEPT !.M2 = SAND(e.T23, e.T23m, e.T8, e.T8m).z,
                   !.M2m = SAND(e.T23, e.T23m, e.T8, e.T8m).m,
                   !.M3 = Xor(e.T14, e.M1),
                   !.M3m = Xor(e.T14m, e.M1m),
                   !.M4 = SAND(e.T19, e.T19m, e.U_0, e.U_0m).z,
                   !.M4m = SAND(e.T19, e.T19m, e.U_0, e.U_0m).m]
    [] k = 12 ->   \* aes.c 316-322
         [e EXCEPT !.M5 = Xor(e.M4, e.M1),
                   !.M5m = Xor(e.M4m, e.M1m),
                   !.M6 = SAND(e.T3, e.T3m, e.T16, e.T16m).z,
                   !.M6m = SAND(e.T3, e.T3m, e.T16, e.T16m).m,
                   !.M7 = SAND(e.T22, e.T22m, e.T9, e.T9m).z,
                   !.M7m = SAND(e.T22, e.T22m, e.T9, e.T9m).m]
    [] k = 13 ->   \* aes.c 324-328
         [e EXCEPT !.M8 = Xor(e.T26, e.M6),
                   !.M8m = Xor(e.T26m, e.M6m),
                   !.M9 = SAND(e.T20, e.T20m, e.T17, e.T17m).z,
                   !.M9m = SAND(e.T20, e.T20m, e.T17, e.T17m).m]
    [] k = 14 ->   \* aes.c 330-336
         [e EXCEPT !.M10 = Xor(e.M9, e.M6),
                   !.M10m = Xor(e.M9m, e.M6m),
                   !.M11 = SAND(e.T1, e.T1m, e.T15, e.T15m).z,
                   !.M11m = SAND(e.T1, e.T1m, e.T15, e.T15m).m,
                   !.M12 = SAND(e.T4, e.T4m, e.T27, e.T27m).z,
                   !.M12m = SAND(e.T4, e.T4m, e.T27, e.T27m).m]
    [] k = 15 ->   \* aes.c 338-342
         [e EXCEPT !.M13 = Xor(e.M12, e.M11),
                   !.M13m = Xor(e.M12m, e.M11m),
                   !.M14 = SAND(e.T2, e.T2m, e.T10, e.T10m).z,
                   !.M14m = SAND(e.T2, e.T2m, e.T10, e.T10m).m]
    [] k = 16 ->   \* aes.c 344-351
         [e EXCEPT !.M15 = Xor(e.M14, e.M11),
                   !.M15m = Xor(e.M14m, e.M11m),
                   !.M16 = Xor(e.M3, e.M2),
                   !.M16m = Xor(e.M3m, e.M2m),
                   !.M17 = Xor(e.M5, e.T24),
                   !.M17m = Xor(e.M5m, e.T24m),
                   !.M18 = Xor(e.M8, e.M7),
                   !.M18m = Xor(e.M8m, e.M7m)]
    [] k = 17 ->   \* aes.c 352-359
         [e EXCEPT !.M19 = Xor(e.M10, e.M15),
                   !.M19m = Xor(e.M10m, e.M15m),
                   !.M20 = Xor(e.M16, e.M13),
                   !.M20m = Xor(e.M16m, e.M13m),
                   !.M21 = Xor(e.M17, e.M15),
                   !.M21m = Xor(e.M17m, e.M15m),
                   !.M22 = Xor(e.M18, e.M13),
                   !.M22m = Xor(e.M18m, e.M13m)]
    [] k = 18 ->   \* aes.c 360-361
         [e EXCEPT !.M23 = Xor(e.M19, e.T25),
                   !.M23m = Xor(e.M19m, e.T25m)]
    [] k = 19 ->   \* aes.c 362-366
         [e EXCEPT !.M24 = Xor(e.M22, e.M23),
                   !.M24m = Xor(e.M22m, e.M23m),
                   !.M25 = SAND(e.M22, e.M22m, e.M20, e.M20m).z,
                   !.M25m = SAND(e.M22, e.M22m, e.M20, e.M20m).m]
    [] k = 20 ->   \* aes.c 368-373
         [e EXCEPT !.M26 = Xor(e.M21, e.M25),
                   !.M26m = Xor(e.M21m, e.M25m),
                   !.M27 = Xor(e.M20, e.M21),
                   !.M27m = Xor(e.M20m, e.M21m),
                   !.M28 = Xor(e.M23, e.M25),
                   !.M28m = Xor(e.M23m, e.M25m)]
    [] k = 21 ->   \* aes.c 376-380
         [e EXCEPT !.M29 = SAND(e.M28, e.M28m, e.M27, e.M27m).z,
                   !.M29m = SAND(e.M28, e.M28m, e.M27, e.M27m).m,
                   !.M30 = SAND(e.M26, e.M26m, e.M24, e.M24m).z,
                   !.M30m = SAND(e.M26, e.M26m, e.M24, e.M24m).m,
                   !.M31 = SAND(e.M20, e.M20m, e.M23, e.M23m).z,
                   !.M31m = SAND(e.M20, e.M20m, e.M23, e.M23m).m]
    [] k = 22 ->   \* aes.c 382-388
         [e EXCEPT !.M32 = SAND(e.M27, e.M27m, e.M31, e.M31m).z,
                   !.M32m = SAND(e.M27, e.M27m, e.M31, e.M31m).m,
                   !.M33 = Xor(e.M27, e.M25),
                   !.M33m = Xor(e.M27m, e.M25m),
                   !.M34 = SAND(e.M21, e.M21m, e.M22, e.M22m).z,
                   !.M34m = SAND(e.M21, e.M21m, e.M22, e.M22m).m]
    [] k = 23 ->   \* aes.c 390-399
         [e EXCEPT !.M35 = SAND(e.M24, e.M24m, e.M34, e.M34m).z,
                   !.M35m = SAND(e.M24, e.M24m, e.M34, e.M34m).m,
                   !.M36 = Xor(e.M24, e.M25),
                   !.M36m = Xor(e.M24m, e.M25m),
                   !.M37 = Xor(e.M21, e.M29),
                   !.M37m = Xor(e.M21m, e.M29m),
                   !.M38 = Xor(e.M32, e.M33),
                   !.M38m = Xor(e.M32m, e.M33m),
                   !.M39 = Xor(e.M23, e.M30),
                   !.M39m = Xor(e.M23m, e.M30m)]
    [] k = 24 ->   \* aes.c 400-401
         [e EXCEPT !.M40 = Xor(e.M35, e.M36),
                   !.M40m = Xor(e.M35m, e.M36m)]
    [] k = 25 ->   \* aes.c 402-409
         [e EXCEPT !.M41 = Xor(e.M38, e.M40),
                   !.M41m = Xor(e.M38m, e.M40m),
                   !.M42 = Xor(e.M37, e.M39),
                   !.M42m = Xor(e.M37m, e.M39m),
                   !.M43 = Xor(e.M37, e.M38),
                   !.M43m = Xor(e.M37m, e.M38m),
                   !.M44 = Xor(e.M39, e.M40),
                   !.M44m = Xor(e.M39m, e.M40m)]
    [] k = 26 ->   \* aes.c 410-426
         [e EXCEPT !.M45 = Xor(e.M42, e.M41),
                   !.M45m = Xor(e.M42m, e.M41m),
                   !.M46 = SAND(e.M44, e.M44m, e.T6, e.T6m).z,
                   !.M46m = SAND(e.M44, e.M44m, e.T6, e.T6m).m,
                   !.M47 = SAND(e.M40, e.M40m, e.T8, e.T8m).z,
                   !.M47m = SAND(e.M40, e.M40m, e.T8, e.T8m).m,
                   !.M48 = SAND(e.M39, e.M39m, e.U_0, e.U_0m).z,
                   !.M48m = SAND(e.M39, e.M39m, e.U_0, e.U_0m).m,
                   !.M49 = SAND(e.M43, e.M43m, e.T16, e.T16m).z,
                   !.M49m = SAND(e.M43, e.M43m, e.T16, e.T16m).m,
                   !.M50 = SAND(e.M38, e.M38m, e.T9, e.T9m).z,
                   !.M50m = SAND(e.M38, e.M38m, e.T9, e.T9m).m,
                   !.M51 = SAND(e.M37, e.M37m, e.T17, e.T17m).z,
                   !.M51m = SAND(e.M37, e.M37m, e.T17, e.T17m).m,
                   !.M52 = SAND(e.M42, e.M42m, e.T15, e.T15m).z,
                   !.M52m = SAND(e.M42, e.M42m, e.T15, e.T15m).m]
    [] k = 27 ->   \* aes.c 428-448
         [e EXCEPT !.M53 = SAND(e.M45, e.M45m, e.T27, e.T27m).z,
                   !.M53m = SAND(e.M45, e.M45m, e.T27, e.T27m).m,
                   !.M54 = SAND(e.M41, e.M41m, e.T10, e.T10m).z,
                   !.M54m = SAND(e.M41, e.M41m, e.T10, e.T10m).m,
                   !.M55 = SAND(e.M44, e.M44m, e.T13, e.T13m).z,
                   !.M55m = SAND(e.M44, e.M44m, e.T13, e.T13m).m,
                   !.M56 = SAND(e.M40, e.M40m, e.T23, e.T23m).z,
                   !.M56m = SAND(e.M40, e.M40m, e.T23, e.T23m).m,
                   !.M57 = SAND(e.M39, e.M39m, e.T19, e.T19m).z,
                   !.M57m = SAND(e.M39, e.M39m, e.T19, e.T19m).m,
                   !.M58 = SAND(e.M43, e.M43m, e.T3, e.T3m).z,
                   !.M58m = SAND(e.M43, e.M43m, e.T3, e.T3m).m,
                   !.M59 = SAND(e.M38, e.M38m, e.T22, e.T22m).z,
                   !.M59m = SAND(e.M38, e.M38m, e.T22, e.T22m).m,
                   !.M60 = SAND(e.M37, e.M37m, e.T20, e.T20m).z,
                   !.M60m = SAND(e.M37, e.M37m, e.T20, e.T20m).m,
                   !.M61 = SAND(e.M42, e.M42m, e.T1, e.T1m).z,
                   !.M61m = SAND(e.M42, e.M42m, e.T1, e.T1m).m,
                   !.M62 = SAND(e.M45, e.M45m, e.T4, e.T4m).z,
                   !.M62m = SAND(e.M45, e.M45m, e.T4, e.T4m).m,
                   !.M63 = SAND(e.M41, e.M41m, e.T2, e.T2m).z,
                   !.M63m = SAND(e.M41, e.M41m, e.T2, e.T2m).m]
    [] k = 28 ->   \* aes.c 450-461
         [e EXCEPT !.L0 = Xor(e.M61, e.M62),
                   !.L0m = Xor(e.M61m, e.M62m),
                   !.L1 = Xor(e.M50, e.M56),
                   !.L1m = Xor(e.M50m, e.M56m),
                   !.L2 = Xor(e.M46, e.M48),
                   !.L2m = Xor(e.M46m, e.M48m),
                   !.L3 = Xor(e.M47, e.M55),
                   !.L3m = Xor(e.M47m, e.M55m),
                   !.L4 = Xor(e.M54, e.M58),
                   !.L4m = Xor(e.M54m, e.M58m),
                   !.L5 = Xor(e.M49, e.M61),
                   !.L5m = Xor(e.M49m, e.M61m)]
    [] k = 29 ->   \* aes.c 462-485
         [e EXCEPT !.L6 = Xor(e.M62, e.L5),
                   !.L6m = Xor(e.M62m, e.L5m),
                   !.L7 = Xor(e.M46, e.L3),
                   !.L7m = Xor(e.M46m, e.L3m),
                   !.L8 = Xor(e.M51, e.M59),
                   !.L8m = Xor(e.M51m, e.M59m),
                   !.L9 = Xor(e.M52, e.M53),
                   !.L9m = Xor(e.M52m, e.M53m),
                   !.L10 = Xor(e.M53, e.L4),
                   !.L10m = Xor(e.M53m, e.L4m),
                   !.L11 = Xor(e.M60, e.L2),
                   !.L11m = Xor(e.M60m, e.L2m),
                   !.L12 = Xor(e.M48, e.M51),
                   !.L12m = Xor(e.M48m, e.M51m),
                   !.L13 = Xor(e.M50, e.L0),
                   !.L13m = Xor(e.M50m, e.L0m),
                   !.L14 = Xor(e.M52, e.M61),
                   !.L14m = Xor(e.M52m, e.M61m),
                   !.L15 = Xor(e.M55, e.L1),
                   !.L15m = Xor(e.M55m, e.L1m),
                   !.L16 = Xor(e.M56, e.L0),
                   !.L16m = Xor(e.M56m, e.L0m),
                   !.L17 = Xor(e.M57, e.L1),
                   !.L17m = Xor(e.M57m, e.L1m)]
    [] k = 30 ->   \* aes.c 486-495
         [e EXCEPT !.L18 = Xor(e.M58, e.L8),
                   !.L18m = Xor(e.M58m, e.L8m),
                   !.L19 = Xor(e.M63, e.L4),
                   !.L19m = Xor(e.M63m, e.L4m),
                   !.L20 = Xor(e.L0, e.L1),
                   !.L20m = Xor(e.L0m, e.L1m),
                   !.L21 = Xor(e.L1, e.L7),
                   !.L21m = Xor(e.L1m, e.L7m),
                   !.L22 = Xor(e.L3, e.L12),
                   !.L22m = Xor(e.L3m, e.L12m)]
    [] k = 31 ->   \* aes.c 496-509
         [e EXCEPT !.L23 = Xor(e.L18, e.L2),
                   !.L23m = Xor(e.L18m, e.L2m),
                   !.L24 = Xor(e.L15, e.L9),
                   !.L24m = Xor(e.L15m, e.L9m),
                   !.L25 = Xor(e.L6, e.L10),
                   !.L25m = Xor(e.L6m, e.L10m),
                   !.L26 = Xor(e.L7, e.L9),
                   !.L26m = Xor(e.L7m, e.L9m),
                   !.L27 = Xor(e.L8, e.L10),
                   !.L27m = Xor(e.L8m, e.L10m),
                   !.L28 = Xor(e.L11, e.L14),
                   !.L28m = Xor(e.L11m, e.L14m),
                   !.L29 = Xor(e.L11, e.L17),
                   !.L29m = Xor(e.L11m, e.L17m)]
    [] k = 32 ->   \* aes.c 510-528
         [e EXCEPT !.U_7 = Xor(e.L6, e.L24),
                   !.U_7m = Xor(e.L6m, e.L24m),
                   !.U_6 = Not(Xor(e.L16, e.L26)),
                   !.U_6m = Xor(e.L16m, e.L26m),
                   !.U_5 = Not(Xor(e.L19, e.L28)),
                   !.U_5m = Xor(e.L19m, e.L28m),
                   !.U_4 = Xor(e.L6, e.L21),
                   !.U_4m = Xor(e.L6m, e.L21m),
                   !.U_3 = Xor(e.L20, e.L22),
                   !.U_3m = Xor(e.L20m, e.L22m),
                   !.U_2 = Xor(e.L25, e.L29),
                   !.U_2m = Xor(e.L25m, e.L29m),
                   !.U_1 = Not(Xor(e.L13, e.L27)),
                   !.U_1m = Xor(e.L13m, e.L27m),
                   !.U_0 = Not(Xor(e.L6, e.L23)),
                   !.U_0m = Xor(e.L6m, e.L23m)]

\* the steps lo, lo + 1, ..., hi - 1 in order (split in halves, which keeps
\* the evaluation shallow)
RECURSIVE SboxRun(_, _, _)
SboxRun(e, lo, hi) ==
  After(e, IF hi - lo = 1 THEN SboxStep(lo, e)
           ELSE SboxRun(SboxRun(e, lo, lo + ((hi - lo) \div 2)),
                        lo + ((hi - lo) \div 2), hi))

\* the bytes t and tm packed from the low bits of the output lanes
SboxPack(e) ==
  [t |-> (e.U_0 % 2) + 2 * (e.U_1 % 2) + 4 * (e.U_2 % 2) + 8 * (e.U_3 % 2)
         + 16 * (e.U_4 % 2) + 32 * (e.U_5 % 2) + 64 * (e.U_6 % 2)
         + ((e.U_7 * 128) % 256),
   tm |-> (e.U_0m % 2) + 2 * (e.U_1m % 2) + 4 * (e.U_2m % 2) + 8 * (e.U_3m % 2)
          + 16 * (e.U_4m % 2) + 32 * (e.U_5m % 2) + 64 * (e.U_6m % 2)
          + ((e.U_7m * 128) % 256)]

getSBoxValuem(num, numm) ==
  SboxPack(SboxRun(SboxLocals(num, numm), 1, SboxSteps + 1))

getSBoxInvert(num) == rsbox[num + 1]

(***************************************************************************)
(* Key schedule.  rk is the 176-byte RoundKey array (indices 0..175), key  *)
(* the 16 bytes Key points to.  KeyWord is one iteration of the loop over  *)
(* i in [Nk, Nb * (Nr + 1)); KeyExpansion runs both loops.                 *)
(***************************************************************************)
\* tempa = the previous word, RoundKey[(i-1) * 4 + 0 .. 3]
PrevWord(rk, i) == Tab([j \in 0..3 |-> rk[(i - 1) * 4 + j]])

\* [a0,a1,a2,a3] becomes [a1,a2,a3,a0]
RotWord(tempa) == Tab([j \in 0..3 |-> tempa[(j + 1) % 4]])

\* the S-box on each byte of the word
SubWord(tempa) == Tab([j \in 0..3 |-> getSBoxValue(tempa[j])])

\* RconWord reading the round constant one entry early
RconWord_early(tempa, i) == [tempa EXCEPT ![0] = Xor(tempa[0], Rcon[i \div Nk])]

\* tempa[0] = tempa[0] ^ Rcon[i/Nk]
RconWord(tempa, i) == [tempa EXCEPT ![0] = Xor(tempa[0], Rcon[(i \div Nk) + 1])]

\* the body of  if (i % Nk == 0)
KeyTemp(tempa, i) ==
  IF i % Nk = 0 THEN RconWord(SubWord(RotWord(tempa)), i) ELSE tempa

\* RoundKey[i * 4 + j] = RoundKey[(i - Nk) * 4 + j] ^ tempa[j]
KeyStore(rk, i, tempa) ==
  [rk EXCEPT ![i * 4 + 0] = Xor(rk[(i - Nk) * 4 + 0], tempa[0]),
             ![i * 4 + 1] = Xor(rk[(i - Nk) * 4 + 1], tempa[1]),
             ![i * 4 + 2] = Xor(rk[(i - Nk) * 4 + 2], tempa[2]),
             ![i * 4 + 3] = Xor(rk[(i - Nk) * 4 + 3], tempa[3])]

KeyWord(rk, i) == KeyStore(rk, i, KeyTemp(PrevWord(rk, i), i))

\* the iterations i = lo, lo + 1, ..., hi - 1 of the second loop, in order
\* (split in halves, which keeps the evaluation shallow)
RECURSIVE KeyLoop(_, _, _)
KeyLoop(rk, lo, hi) ==
  After(rk, IF hi - lo = 1 THEN KeyWord(rk, lo)
            ELSE KeyLoop(KeyLoop(rk, lo, lo + ((hi - lo) \div 2)),
                         lo + ((hi - lo) \div 2), hi))

\* the first loop copies the key into the first round key
KeyFirst(rk, key) == Tab([k \in 0..175 |-> IF k < Nk * 4 THEN key[k] ELSE rk[k]])

KeyExpansion(rk, key) == KeyLoop(KeyFirst(rk, key), Nk, Nb * (Nr + 1))

(***************************************************************************)
(* Round transforms on a state_t, held as bytes 0..15 with state[i][j]     *)
(* at index 4 * i + j.                                                     *)
(***************************************************************************)
AddRoundKey(rk, state, round) ==
  Tab([k \in 0..15 |-> Xor(state[k], rk[round * Nb * 4 + k])])

\* the state bytes and the mask bytes of the sixteen circuit results
Shares(r) ==
  [s |-> Tab([k \in 0..15 |-> r[k].t]), m |-> Tab([k \in 0..15 |-> r[k].tm])]

\* SubBytesm that does not store the new mask bytes
SubBytesm_stalemask(state, statem) ==
  [s |-> Tab([k \in 0..15 |-> getSBoxValuem(state[k], statem[k]).t]), m |-> statem]

\* Each byte goes through the masked circuit with its own mask byte; the
\* result holds the new state and the new mask.
SubBytesm(state, statem) ==
  Shares(Tab([k \in 0..15 |-> getSBoxValuem(state[k], statem[k])]))

SubBytes(state) == Tab([k \in 0..15 |-> getSBoxValue(state[k])])

\* Index k receives the byte the assignments of ShiftRows move into it.
ShiftRowsFrom == << 0, 5, 10, 15, 4, 9, 14, 3, 8, 13, 2, 7, 12, 1, 6, 11 >>

ShiftRows(state) == Tab([k \in 0..15 |-> state[ShiftRowsFrom[k + 1]]])

\* xtime without the reduction by 0x1b
xtime_noreduce(x) == (2 * x) % 256

xtime(x) == Xor((2 * x) % 256, (x \div 128) * 27)

MixColumns(state) ==
  Tab([k \in 0..15 |->
    LET i == k \div 4
        j == k % 4
        Tmp == Xor(Xor(state[4 * i], state[4 * i + 1]),
                   Xor(state[4 * i + 2], state[4 * i + 3]))
        Tm == xtime(Xor(state[4 * i + j], state[4 * i + ((j + 1) % 4)]))
    IN  Xor(state[k], Xor(Tm, Tmp))])

Multiply(x, y) ==
  Xor(Xor(Xor((y % 2) * x,
              ((y \div 2) % 2) * xtime(x)),
          Xor(((y \div 4) % 2) * xtime(xtime(x)),
              ((y \div 8) % 2) * xtime(xtime(xtime(x))))),
      ((y \div 16) % 2) * xtime(xtime(xtime(xtime(x)))))

\* Row j of the inverse matrix, as the four assignments of InvMixColumns
\* apply it to a, b, c, d.
InvMixCoef ==
  << << 14, 11, 13, 9 >>, << 9, 14, 11, 13 >>,
     << 13, 9, 14, 11 >>, << 11, 13, 9, 14 >> >>

InvMixColumns(state) ==
  Tab([k \in 0..15 |->
    LET i == k \div 4
        co == InvMixCoef[(k % 4) + 1]
        a == state[4 * i]
        b == state[4 * i + 1]
        c == state[4 * i + 2]
        d == state[4 * i + 3]
    IN  Xor(Xor(Multiply(a, co[1]), Multiply(b, co[2])),
            Xor(Multiply(c, co[3]), Multiply(d, co[4])))])

InvSubBytes(state) == Tab([k \in 0..15 |-> getSBoxInvert(state[k])])

InvShiftRowsFrom == << 0, 13, 10, 7, 4, 1, 14, 11, 8, 5, 2, 15, 12, 9, 6, 3 >>

\* InvShiftRows rotating the rows to the left
InvShiftRows_left(state) == Tab([k \in 0..15 |-> state[ShiftRowsFrom[k + 1]]])

InvShiftRows(state) == Tab([k \in 0..15 |-> state[InvShiftRowsFrom[k + 1]]])

(***************************************************************************)
(* The forward cipher.  A masked state is [s |-> value, m |-> mask].       *)
(***************************************************************************)
rng == << 19, 5, 89, 129, 73, 175, 179, 48, 41, 17, 196, 187, 145, 228, 152, 68 >>

XorBlock(a, b) == Tab([k \in 0..15 |-> Xor(a[k], b[k])])

\* add "random" mask, then the first round key
CipherStart(rk, state, statem) ==
  [s |-> AddRoundKey(rk, XorBlock(state, statem), 0), m |-> statem]

\* ShiftRows, MixColumns and AddRoundKey on the state, and ShiftRows and
\* MixColumns on the mask, of a round
RoundLinear(rk, sb, round) ==
  After(sb, [s |-> AddRoundKey(rk, MixColumns(ShiftRows(sb.s)), round),
             m |-> MixColumns(ShiftRows(sb.m))])

\* one of the Nr - 1 identical rounds
CipherRound(rk, sm, round) == RoundLinear(rk, SubBytesm(sm.s, sm.m), round)

RECURSIVE CipherLoop(_, _, _)
CipherLoop(rk, sm, round) ==
  After(sm, IF round < Nr
            THEN CipherLoop(rk, CipherRound(rk, sm, round), round + 1)
            ELSE sm)

\* ShiftRows and AddRoundKey on the state, ShiftRows on the mask
LastLinear(rk, sb) ==
  After(sb, [s |-> AddRoundKey(rk, ShiftRows(sb.s), Nr), m |-> ShiftRows(sb.m)])

\* the last round, without MixColumns
CipherLast(rk, sm) == After(sm, LastLinear(rk, SubBytesm(sm.s, sm.m)))

\* remove mask
CipherEnd(sm) == After(sm, XorBlock(sm.s, sm.m))

\* Cipher with the mask bytes as a parameter
CipherMasked(rk, state, statem) ==
  CipherEnd(CipherLast(rk, CipherLoop(rk, CipherStart(rk, state, statem), 1)))

RngBlock == Tab([k \in 0..15 |-> rng[k + 1]])

Cipher(rk, state) == CipherMasked(rk, state, RngBlock)

InvCipherRound(rk, state, round) ==
  InvMixColumns(AddRoundKey(rk, InvSubBytes(InvShiftRows(state)), round))

RECURSIVE InvCipherLoop(_, _, _)
InvCipherLoop(rk, state, round) ==
  After(state, IF round > 0
               THEN InvCipherLoop(rk, InvCipherRound(rk, state, round), round - 1)
               ELSE state)

\* the last round, without InvMixColumns
InvCipherLast(rk, state) ==
  After(state, AddRoundKey(rk, InvSubBytes(InvShiftRows(state)), 0))

InvCipher(rk, state) ==
  InvCipherLast(rk, InvCipherLoop(rk, AddRoundKey(rk, state, Nr), Nr - 1))

(***************************************************************************)
(* Bounds of the model and the caller's memory.                            *)
(***************************************************************************)
\* the longest CBC buffer a call is given, in 16-byte blocks
MaxBlocks == 2

\* the number of calls in a run of ECB calls
MaxCalls == 2

\* the null pointer
NULL == 0

\* Every data buffer is followed by two blocks of memory that are not part
\* of it, so that a call running past the end of a buffer stays in memory.
Cap == KEYLEN * (MaxBlocks + 2)

KeyA == NULL + 1

KeyB == KeyA + KEYLEN

IvBuf == KeyB + KEYLEN

BufA == IvBuf + KEYLEN

\* the n-th data buffer; the caller owns MaxCalls + 1 of them
DataBuf(n) == BufA + n * Cap

BufB == DataBuf(1)

BufC == DataBuf(2)

MemSize == DataBuf(MaxCalls + 1) - 1

Addr == 1..MemSize

ReadBlock(m, p) == Tab([k \in 0..15 |-> m[p + k]])

WriteBlock(m, p, blk) ==
  Tab([a \in Addr |-> IF a >= p /\ a < p + KEYLEN THEN blk[a - p] ELSE m[a]])

RECURSIVE BlockCopyFrom(_, _, _, _)
BlockCopyFrom(m, output, input, i) ==
  IF i < KEYLEN
  THEN BlockCopyFrom([m EXCEPT ![output + i] = m[input + i]], output, input, i + 1)
  ELSE m

BlockCopy(m, output, input) == BlockCopyFrom(m, output, input, 0)

(***************************************************************************)
(* The public functions, as functions of the program state                 *)
(*   st = [mem, RoundKey, Key, Iv, trap]                                   *)
(* where mem is the caller's memory and trap says that the call ended in a *)
(* fault.  zp is what a read through a null Iv meets: a fault (zp.trap),   *)
(* or the 16 bytes zp.bytes found at address 0.                            *)
(***************************************************************************)
\* BlockCopy(output, input) on the caller's memory
CopyBlock(st, output, input) ==
  After(st, [st EXCEPT !.mem = BlockCopy(st.mem, output, input)])

\* Key = key without the KeyExpansion call
SetKey_noexpansion(st, key) == After(st, [st EXCEPT !.Key = key])

\* Key = key; KeyExpansion();
SetKey(st, key) ==
  After(st, [st EXCEPT !.Key = key,
                       !.RoundKey = KeyExpansion(st.RoundKey, ReadBlock(st.mem, key))])

\* Cipher on the block at p, with the mask bytes as a parameter
CipherMaskedAt(st, p, statem) ==
  After(st, [st EXCEPT !.mem = WriteBlock(st.mem, p,
                         CipherMasked(st.RoundKey, ReadBlock(st.mem, p), statem))])

\* Cipher on the block at p
CipherAt(st, p) == CipherMaskedAt(st, p, RngBlock)

\* InvCipher on the block at p
InvCipherAt(st, p) ==
  After(st, [st EXCEPT !.mem = WriteBlock(st.mem, p,
                         InvCipher(st.RoundKey, ReadBlock(st.mem, p)))])

\* AES128_ECB_encrypt with the mask bytes of its Cipher call as a parameter
ECB_encrypt_masked(st, input, key, output, statem) ==
  CipherMaskedAt(SetKey(CopyBlock(st, output, input), key), output, statem)

AES128_ECB_encrypt_fn(st, input, key, output) ==
  ECB_encrypt_masked(st, input, key, output, RngBlock)

AES128_ECB_decrypt_fn(st, input, key, output) ==
  InvCipherAt(SetKey(CopyBlock(st, output, input), key), output)

RECURSIVE XorWithIvFrom(_, _, _, _)
XorWithIvFrom(m, buf, iv, i) ==
  IF i < KEYLEN
  THEN XorWithIvFrom([m EXCEPT ![buf + i] = Xor(m[buf + i], m[iv + i])], buf, iv, i + 1)
  ELSE m

\* XorWithIv working on a copy of the block: the caller's buffer keeps its bytes
XorWithIv_oncopy(st, buf, zp) ==
  After(st, IF ~st.trap /\ st.Iv = NULL /\ zp.trap THEN [st EXCEPT !.trap = TRUE] ELSE st)

XorWithIv(st, buf, zp) ==
  After(st,
    IF st.trap THEN st
    ELSE IF st.Iv = NULL
    THEN IF zp.trap THEN [st EXCEPT !.trap = TRUE]
         ELSE [st EXCEPT !.mem = WriteBlock(st.mem, buf,
                                            XorBlock(ReadBlock(st.mem, buf), zp.bytes))]
    ELSE [st EXCEPT !.mem = XorWithIvFrom(st.mem, buf, st.Iv, 0)])

\* if(0 != key) { Key = key; KeyExpansion(); }
CBC_key(st, key) == IF key # NULL THEN SetKey(st, key) ELSE st

\* CBC_iv storing the iv argument even when it is null
CBC_iv_always(st, iv) == After(st, [st EXCEPT !.Iv = iv])

\* if(iv != 0) { Iv = iv; }
CBC_iv(st, iv) == After(st, IF iv # NULL THEN [st EXCEPT !.Iv = iv] ELSE st)

\* the first statements of both CBC functions, up to the block loop
CBC_setup(st, output, input, key, iv) ==
  CBC_iv(CBC_key(CopyBlock(st, output, input), key), iv)

\* memset(output + remainders, 0, KEYLEN - remainders)
ZeroFill(m, output, remainders) ==
  Tab([a \in Addr |->
        IF a >= output + remainders /\ a < output + KEYLEN THEN 0 ELSE m[a]])

\* Iv = p, unless the call has ended in a fault
SetIv(st, p) == After(st, IF st.trap THEN st ELSE [st EXCEPT !.Iv = p])

\* CBC_encrypt_rest that leaves Iv where it was
CBC_encrypt_rest_staleiv(st, output, input) ==
  IF st.trap THEN st ELSE CipherAt(CopyBlock(st, output, input), output)

\* the statements that follow XorWithIv(input) in the encrypt loop
CBC_encrypt_rest(st, output, input) ==
  IF st.trap THEN st
  ELSE SetIv(CipherAt(CopyBlock(st, output, input), output), output)

\* one iteration of the encrypt loop
CBC_encrypt_block(st, output, input, zp) ==
  CBC_encrypt_rest(XorWithIv(st, input, zp), output, input)

\* the loop from iteration i on; output and input are the advanced pointers
RECURSIVE CBC_encrypt_loop(_, _, _, _, _, _)
CBC_encrypt_loop(st, output, input, i, length, zp) ==
  After(st, IF i < length /\ ~st.trap
            THEN CBC_encrypt_loop(CBC_encrypt_block(st, output, input, zp),
                                  output + KEYLEN, input + KEYLEN,
                                  i + KEYLEN, length, zp)
            ELSE st)

\* the number of iterations of  for(i = 0; i < length; i += KEYLEN)
LoopCount(length) == (length + KEYLEN - 1) \div KEYLEN

\* if(remainders) { BlockCopy; memset; Cipher }
CBC_encrypt_tail(st, output, input, remainders) ==
  After(st,
    IF remainders # 0 /\ ~st.trap
    THEN CipherAt([st EXCEPT !.mem = ZeroFill(BlockCopy(st.mem, output, input),
                                              output, remainders)], output)
    ELSE st)

AES128_CBC_encrypt_buffer_fn(st, output, input, length, key, iv, zp) ==
  CBC_encrypt_tail(
    CBC_encrypt_loop(CBC_setup(st, output, input, key, iv),
                     output, input, 0, length, zp),
    output + KEYLEN * LoopCount(length), input + KEYLEN * LoopCount(length),
    length % KEYLEN)

\* CBC_decrypt_block that leaves Iv where it was
CBC_decrypt_block_staleiv(st, output, input, zp) ==
  XorWithIv(InvCipherAt(CopyBlock(st, output, input), output), output, zp)

\* one iteration of the decrypt loop
CBC_decrypt_block(st, output, input, zp) ==
  SetIv(XorWithIv(InvCipherAt(CopyBlock(st, output, input), output), output, zp),
        input)

RECURSIVE CBC_decrypt_loop(_, _, _, _, _, _)
CBC_decrypt_loop(st, output, input, i, length, zp) ==
  After(st, IF i < length /\ ~st.trap
            THEN CBC_decrypt_loop(CBC_decrypt_block(st, output, input, zp),
                                  output + KEYLEN, input + KEYLEN,
                                  i + KEYLEN, length, zp)
            ELSE st)

\* if(remainders) { BlockCopy; memset; InvCipher }
CBC_decrypt_tail(st, output, input, remainders) ==
  After(st,
    IF remainders # 0 /\ ~st.trap
    THEN InvCipherAt([st EXCEPT !.mem = ZeroFill(BlockCopy(st.mem, output, input),
                                                 output, remainders)], output)
    ELSE st)

AES128_CBC_decrypt_buffer_fn(st, output, input, length, key, iv, zp) ==
  CBC_decrypt_tail(
    CBC_decrypt_loop(CBC_setup(st, output, input, key, iv),
                     output, input, 0, length, zp),
    output + KEYLEN * LoopCount(length), input + KEYLEN * LoopCount(length),
    length % KEYLEN)

(***************************************************************************)
(* Test vectors: SP 800-38A (ECB-AES128, CBC-AES128) and FIPS-197.         *)
(***************************************************************************)
Blk(t) == Tab([k \in 0..15 |-> t[k + 1]])

\* 2b7e151628aed2a6abf7158809cf4f3c
FipsKey == Blk(<< 43, 126, 21, 22, 40, 174, 210, 166, 171, 247, 21, 136, 9, 207, 79, 60 >>)

\* 6bc1bee22e409f96e93d7e117393172a
Plain1 == Blk(<< 107, 193, 190, 226, 46, 64, 159, 150, 233, 61, 126, 17, 115, 147, 23, 42 >>)

\* ae2d8a571e03ac9c9eb76fac45af8e51
Plain2 == Blk(<< 174, 45, 138, 87, 30, 3, 172, 156, 158, 183, 111, 172, 69, 175, 142, 81 >>)

\* 30c81c46a35ce411e5fbc1191a0a52ef
Plain3 == Blk(<< 48, 200, 28, 70, 163, 92, 228, 17, 229, 251, 193, 25, 26, 10, 82, 239 >>)

\* f69f2445df4f9b17ad2b417be66c3710
Plain4 == Blk(<< 246, 159, 36, 69, 223, 79, 155, 23, 173, 43, 65, 123, 230, 108, 55, 16 >>)

\* 3ad77bb40d7a3660a89ecaf32466ef97
EcbCipher1 == Blk(<< 58, 215, 123, 180, 13, 122, 54, 96, 168, 158, 202, 243, 36, 102, 239, 151 >>)

\* f5d3d58503b9699de785895a96fdbaaf
EcbCipher2 == Blk(<< 245, 211, 213, 133, 3, 185, 105, 157, 231, 133, 137, 90, 150, 253, 186, 175 >>)

\* 43b1cd7f598ece23881b00e3ed030688
EcbCipher3 == Blk(<< 67, 177, 205, 127, 89, 142, 206, 35, 136, 27, 0, 227, 237, 3, 6, 136 >>)

\* 7b0c785e27e8ad3f8223207104725dd4
EcbCipher4 == Blk(<< 123, 12, 120, 94, 39, 232, 173, 63, 130, 35, 32, 113, 4, 114, 93, 212 >>)

\* 000102030405060708090a0b0c0d0e0f
CbcIv == Blk(<< 0, 1, 2, 3, 4, 5, 6, 7, 8, 9, 10, 11, 12, 13, 14, 15 >>)

\* 7649abac8119b246cee98e9b12e9197d
CbcCipher1 == Blk(<< 118, 73, 171, 172, 129, 25, 178, 70, 206, 233, 142, 155, 18, 233, 25, 125 >>)

\* 5086cb9b507219ee95db113a917678b2
CbcCipher2 == Blk(<< 80, 134, 203, 155, 80, 114, 25, 238, 149, 219, 17, 58, 145, 118, 120, 178 >>)

\* 000102030405060708090a0b0c0d0e0f
OtherKey == Blk(<< 0, 1, 2, 3, 4, 5, 6, 7, 8, 9, 10, 11, 12, 13, 14, 15 >>)

\* f0e1d2c3b4a5968778695a4b3c2d1e0f
OtherIv == Blk(<< 240, 225, 210, 195, 180, 165, 150, 135, 120, 105, 90, 75, 60, 45, 30, 15 >>)

\* 00112233445566778899aabbccddeeff
OtherText == Blk(<< 0, 17, 34, 51, 68, 85, 102, 119, 136, 153, 170, 187, 204, 221, 238, 255 >>)

\* FIPS-197 Appendix A.1: the eleven round keys of FipsKey
FipsRoundKeys ==
  << 43, 126, 21, 22, 40, 174, 210, 166, 171, 247, 21, 136, 9, 207, 79, 60,
     160, 250, 254, 23, 136, 84, 44, 177, 35, 163, 57, 57, 42, 108, 118, 5,
     242, 194, 149, 242, 122, 150, 185, 67, 89, 53, 128, 122, 115, 89, 246, 127,
     61, 128, 71, 125, 71, 22, 254, 62, 30, 35, 126, 68, 109, 122, 136, 59,
     239, 68, 165, 65, 168, 82, 91, 127, 182, 113, 37, 59, 219, 11, 173, 0,
     212, 209, 198, 248, 124, 131, 157, 135, 202, 242, 184, 188, 17, 249, 21, 188,
     109, 136, 163, 122, 17, 11, 62, 253, 219, 249, 134, 65, 202, 0, 147, 253,
     78, 84, 247, 14, 95, 95, 201, 243, 132, 166, 79, 178, 78, 166, 220, 79,
     234, 210, 115, 33, 181, 141, 186, 210, 49, 43, 245, 96, 127, 141, 41, 47,
     172, 119, 102, 243, 25, 250, 220, 33, 40, 209, 41, 65, 87, 92, 0, 110,
     208, 20, 249, 168, 201, 238, 37, 137, 225, 63, 12, 200, 182, 99, 12, 166 >>
(***************************************************************************)
(* The program state: the caller's memory, the file-scope RoundKey, Key    *)
(* and Iv, and whether a call has faulted.  hist is the list of the calls  *)
(* made so far, each with its arguments, the mask bytes the forward cipher *)
(* ran with, and the program state it started from.  sb holds one masked   *)
(* byte (value share num, mask share numm) on its way through the S-box,   *)
(* or, where a function is followed statement by statement, its arguments, *)
(* its locals and the statement it is at.                                  *)
(***************************************************************************)
VARIABLES mem, RoundKey, Key, Iv, trap, hist, sb

vars == << mem, RoundKey, Key, Iv, trap, hist, sb >>

Machine == [mem |-> mem, RoundKey |-> RoundKey, Key |-> Key, Iv |-> Iv, trap |-> trap]

Install(st) ==
  /\ st = st
  /\ mem' = st.mem
  /\ RoundKey' = st.RoundKey
  /\ Key' = st.Key
  /\ Iv' = st.Iv
  /\ trap' = st.trap
  /\ sb' = sb

Call(fn, output, input, length, key, iv, seed) ==
  [fn |-> fn, output |-> output, input |-> input, length |-> length,
   key |-> key, iv |-> iv, seed |-> seed, pre |-> Machine]

AES128_ECB_encrypt(input, key, output) ==
  /\ ~trap
  /\ Install(AES128_ECB_encrypt_fn(Machine, input, key, output))
  /\ hist' = Append(hist, Call("ECB_encrypt", output, input, KEYLEN, key, NULL, RngBlock))

\* AES128_ECB_encrypt built with the bytes seed in place of the rng array
AES128_ECB_encrypt_seeded(input, key, output, seed) ==
  /\ ~trap
  /\ Install(ECB_encrypt_masked(Machine, input, key, output, seed))
  /\ hist' = Append(hist, Call("ECB_encrypt", output, input, KEYLEN, key, NULL, seed))

AES128_ECB_decrypt(input, key, output) ==
  /\ ~trap
  /\ Install(AES128_ECB_decrypt_fn(Machine, input, key, output))
  /\ hist' = Append(hist, Call("ECB_decrypt", output, input, KEYLEN, key, NULL, RngBlock))

AES128_CBC_encrypt_buffer(output, input, length, key, iv, zp) ==
  /\ ~trap
  /\ Install(AES128_CBC_encrypt_buffer_fn(Machine, output, input, length, key, iv, zp))
  /\ hist' = Append(hist, Call("CBC_encrypt", output, input, length, key, iv, RngBlock))

AES128_CBC_decrypt_buffer(output, input, length, key, iv, zp) ==
  /\ ~trap
  /\ Install(AES128_CBC_decrypt_buffer_fn(Machine, output, input, length, key, iv, zp))
  /\ hist' = Append(hist, Call("CBC_decrypt", output, input, length, key, iv, RngBlock))

(***************************************************************************)
(* Memory as the caller sets it up before the first call: a key in KeyA,   *)
(* another in KeyB, an IV, data at the start of BufA, and the byte fill    *)
(* everywhere else.  RoundKey, Key and Iv are zero-initialised statics.    *)
(***************************************************************************)
InitMem(keyA, keyB, iv, data, fill) ==
  Tab([a \in Addr |->
        IF a < KeyB THEN keyA[a - KeyA]
        ELSE IF a < IvBuf THEN keyB[a - KeyB]
        ELSE IF a < BufA THEN iv[a - IvBuf]
        ELSE IF a < BufA + Len(data) THEN data[a - BufA + 1]
        ELSE fill])

ZeroRoundKey == Tab([k \in 0..175 |-> 0])

Fresh(m) ==
  /\ mem = m
  /\ RoundKey = ZeroRoundKey
  /\ Key = NULL
  /\ Iv = NULL
  /\ trap = FALSE
  /\ hist = << >>

SbIdle == [num |-> 0, numm |-> 0, t |-> 0, tm |-> 0, done |-> FALSE]

\* bytes of a block as a sequence
Bytes(b) == [k \in 1..16 |-> b[k - 1]]

\* the last call, the block it was given, the key its key argument pointed
\* to, and the block it left at the start of its output
Last == hist[Len(hist)]

InBlock(c) == ReadBlock(c.pre.mem, c.input)

KeyBlock(c) == ReadBlock(c.pre.mem, c.key)

OutBlock(c) == ReadBlock(mem, c.output)

(***************************************************************************)
(* ECB: the caller encrypts or decrypts the block in the first data buffer *)
(* into the second, then the block in the second into the third, ...       *)
(***************************************************************************)
EcbTexts ==
  { Plain1, Plain2, Plain3, Plain4,
    EcbCipher1, EcbCipher2, EcbCipher3, EcbCipher4 }

EcbKeys == { FipsKey, OtherKey }

InitECB ==
  \E key \in EcbKeys, text \in EcbTexts :
    Fresh(InitMem(key, OtherIv, CbcIv, Bytes(text), 0)) /\ sb = SbIdle

EcbEncryptCall ==
  \E key \in { KeyA, KeyB } :
    /\ Len(hist) < MaxCalls
    /\ hist # << >> \/ key = KeyA
    /\ AES128_ECB_encrypt(DataBuf(Len(hist)), key, DataBuf(Len(hist) + 1))

EcbDecryptCall ==
  \E key \in { KeyA, KeyB } :
    /\ Len(hist) < MaxCalls
    /\ hist # << >> \/ key = KeyA
    /\ AES128_ECB_decrypt(DataBuf(Len(hist)), key, DataBuf(Len(hist) + 1))

NextECB == EcbEncryptCall \/ EcbDecryptCall

SpecECB == InitECB /\ [][NextECB]_vars

(***************************************************************************)
(* C1.  Under key 2b7e1516..., AES128_ECB_encrypt maps each of the four    *)
(* SP 800-38A plaintext blocks to its ciphertext block, and                *)
(* AES128_ECB_decrypt maps each ciphertext block back to its plaintext.    *)
(***************************************************************************)
NistEcb ==
  << [p |-> Plain1, c |-> EcbCipher1], [p |-> Plain2, c |-> EcbCipher2],
     [p |-> Plain3, c |-> EcbCipher3], [p |-> Plain4, c |-> EcbCipher4] >>

C1_EcbVectors ==
  hist # << >> /\ KeyBlock(Last) = FipsKey =>
    \A v \in 1..4 :
      /\ Last.fn = "ECB_encrypt" /\ InBlock(Last) = NistEcb[v].p
           => OutBlock(Last) = NistEcb[v].c
      /\ Last.fn = "ECB_decrypt" /\ InBlock(Last) = NistEcb[v].c
           => OutBlock(Last) = NistEcb[v].p

C1_Witness ==
  /\ Len(hist) = 2
  /\ hist[1].fn = "ECB_encrypt" /\ InBlock(hist[1]) = Plain4
  /\ hist[2].fn = "ECB_decrypt" /\ KeyBlock(hist[2]) = FipsKey
  /\ InBlock(hist[2]) = EcbCipher4
  /\ OutBlock(hist[2]) = Plain4

(***************************************************************************)
(* C2.  Decrypting, with the same key bytes, the block that                *)
(* AES128_ECB_encrypt produced gives back the block that was encrypted.    *)
(***************************************************************************)
C2_EcbRoundTrip ==
  Len(hist) >= 2 =>
    LET e == hist[Len(hist) - 1]
        d == Last
    IN  /\ e.fn = "ECB_encrypt"
        /\ d.fn = "ECB_decrypt"
        /\ d.input = e.output
        /\ KeyBlock(d) = KeyBlock(e)
        => OutBlock(d) = InBlock(e)

C2_Witness ==
  /\ Len(hist) = 2
  /\ hist[1].fn = "ECB_encrypt" /\ KeyBlock(hist[1]) = OtherKey
  /\ InBlock(hist[1]) = EcbCipher2
  /\ hist[2].fn = "ECB_decrypt" /\ hist[2].key = hist[1].key
  /\ OutBlock(hist[2]) = EcbCipher2

(***************************************************************************)
(* C10.  KeyExpansion leaves the key in RoundKey[0..15]; word i in [4, 44) *)
(* is word i - 4 XOR t, where t is word i - 1, and when i mod 4 = 0 t is   *)
(* first rotated left one byte, passed bytewise through sbox and XORed     *)
(* with Rcon[i / 4] in its first byte.  For key 2b7e1516... the round keys *)
(* are those of FIPS-197 Appendix A, from a0fafe17... (RoundKey[16..31])   *)
(* to d014f9a8... (RoundKey[160..175]).                                    *)
(***************************************************************************)
RkWord(i) ==
  << RoundKey[4 * i], RoundKey[4 * i + 1], RoundKey[4 * i + 2], RoundKey[4 * i + 3] >>

RotSubRcon(w, i) ==
  << Xor(sbox[w[2] + 1], Rcon[(i \div 4) + 1]),
     sbox[w[3] + 1], sbox[w[4] + 1], sbox[w[1] + 1] >>

XorWord(a, b) ==
  << Xor(a[1], b[1]), Xor(a[2], b[2]), Xor(a[3], b[3]), Xor(a[4], b[4]) >>

C10_KeySchedule ==
  hist # << >> =>
    /\ \A k \in 0..15 : RoundKey[k] = KeyBlock(Last)[k]
    /\ \A i \in 4..43 :
         RkWord(i) = XorWord(RkWord(i - 4),
                             IF i % 4 = 0 THEN RotSubRcon(RkWord(i - 1), i)
                             ELSE RkWord(i - 1))
    /\ KeyBlock(Last) = FipsKey =>
         \A k \in 0..175 : RoundKey[k] = FipsRoundKeys[k + 1]

C10_Witness ==
  /\ hist # << >>
  /\ KeyBlock(Last) = FipsKey
  /\ \A k \in 0..15 : RoundKey[160 + k] = FipsRoundKeys[161 + k]

(***************************************************************************)
(* The masked S-box on one byte: every value share num and mask share numm *)
(* goes through getSBoxValuem once, as SubBytesm does for a state byte.    *)
(***************************************************************************)
InitSbox ==
  /\ Fresh(InitMem(FipsKey, OtherKey, CbcIv, Bytes(Plain1), 0))
  /\ sb \in [num : Byte, numm : Byte, t : {0}, tm : {0}, done : {FALSE}]

\* the byte with the circuit's result r stored in it
SbDone(s, r) == [s EXCEPT !.t = r.t, !.tm = r.tm, !.done = TRUE]

SubByte ==
  /\ ~sb.done
  /\ sb' = SbDone(sb, getSBoxValuem(sb.num, sb.numm))
  /\ UNCHANGED << mem, RoundKey, Key, Iv, trap, hist >>

NextSbox == SubByte

SpecSbox == InitSbox /\ [][NextSbox]_vars

(***************************************************************************)
(* C3.  For every value share num and mask share numm, the byte t that     *)
(* getSBoxValuem returns and the byte tm it writes back satisfy            *)
(* t XOR tm = sbox[num XOR numm].                                          *)
(***************************************************************************)
C3_MaskedSbox ==
  sb.done => Xor(sb.t, sb.tm) = sbox[Xor(sb.num, sb.numm) + 1]

C3_Witness ==
  /\ sb.done
  /\ sb.num = 83 /\ sb.numm = 202
  /\ sb.tm # 0
  /\ Xor(sb.t, sb.tm) = sbox[Xor(83, 202) + 1]

(***************************************************************************)
(* Mask seeds.  The caller encrypts the block in the first data buffer     *)
(* again and again, each time into the next data buffer and each time with *)
(* one of the blocks Seeds in place of the rng array of Cipher.            *)
(***************************************************************************)
ZeroBlock == Tab([k \in 0..15 |-> 0])

OnesBlock == Tab([k \in 0..15 |-> 255])

Seeds == { RngBlock, ZeroBlock, OnesBlock, CbcIv }

MaskTexts == { Plain1, Plain3, OtherText }

InitMask ==
  \E key \in EcbKeys, text \in MaskTexts :
    Fresh(InitMem(key, OtherIv, CbcIv, Bytes(text), 0)) /\ sb = SbIdle

SeededCall ==
  \E seed \in Seeds :
    /\ Len(hist) < MaxCalls
    /\ AES128_ECB_encrypt_seeded(BufA, KeyA, DataBuf(Len(hist) + 1), seed)

NextMask == SeededCall

SpecMask == InitMask /\ [][NextMask]_vars

(***************************************************************************)
(* C4.  For a fixed plaintext block and key, the forward cipher run with   *)
(* any two of the mask seeds in place of rng leaves the same 16 bytes of   *)
(* output.                                                                 *)
(***************************************************************************)
C4_SeedIndependent ==
  \A i, j \in 1..Len(hist) :
    /\ InBlock(hist[i]) = InBlock(hist[j])
    /\ KeyBlock(hist[i]) = KeyBlock(hist[j])
    => OutBlock(hist[i]) = OutBlock(hist[j])

C4_Witness ==
  /\ Len(hist) = 2
  /\ hist[1].seed = RngBlock /\ hist[2].seed = OnesBlock
  /\ KeyBlock(hist[2]) = FipsKey /\ InBlock(hist[2]) = Plain1
  /\ InBlock(hist[1]) = Plain1 /\ KeyBlock(hist[1]) = FipsKey
  /\ OutBlock(hist[1]) = EcbCipher1
  /\ OutBlock(hist[2]) = EcbCipher1

(***************************************************************************)
(* CBC.  The caller encrypts the first data buffer into the second and     *)
(* then decrypts the second into the third, each time with a length, a key *)
(* and the IV buffer.  The lengths are the multiples of 16 up to MaxBlocks *)
(* blocks, and those plus a remainder up to MaxBlocks - 1 blocks.          *)
(***************************************************************************)
\* a null Iv that faults when read
ZpTrap == [trap |-> TRUE]

FullLengths == { KEYLEN * q : q \in 0..MaxBlocks }

Remainders == { 5 }

TailLengths == { KEYLEN * q + r : q \in 0..(MaxBlocks - 1), r \in Remainders }

Lengths == FullLengths \cup TailLengths

NistText == Bytes(Plain1) \o Bytes(Plain2) \o Bytes(Plain3) \o Bytes(Plain4)

AltText == Bytes(OtherText) \o Bytes(EcbCipher3) \o Bytes(OtherIv) \o Bytes(Plain2)

CbcTexts == { NistText, AltText }

CbcIvs == { CbcIv, OtherIv }

InitCBC ==
  \E iv \in CbcIvs, text \in CbcTexts :
    Fresh(InitMem(FipsKey, OtherKey, iv, text, 165)) /\ sb = SbIdle

CbcEncryptCall ==
  \E length \in Lengths, key \in { KeyA, KeyB } :
    /\ Len(hist) = 0
    /\ AES128_CBC_encrypt_buffer(BufB, BufA, length, key, IvBuf, ZpTrap)

CbcDecryptCall ==
  \E length \in Lengths, key \in { KeyA, KeyB } :
    /\ Len(hist) = 1
    /\ AES128_CBC_decrypt_buffer(BufC, BufB, length, key, IvBuf, ZpTrap)

NextCBC == CbcEncryptCall \/ CbcDecryptCall

SpecCBC == InitCBC /\ [][NextCBC]_vars

\* n bytes of memory from p on
ReadBytes(m, p, n) == Tab([k \in 0..(n - 1) |-> m[p + k]])

\* the IV a call's iv argument pointed to, and the round keys of its key
IvBlock(c) == ReadBlock(c.pre.mem, c.iv)

CallRoundKey(c) == KeyExpansion(ZeroRoundKey, KeyBlock(c))

\* block i of what the call was given and of what it has left
InBlockAt(c, i) == ReadBlock(c.pre.mem, c.input + KEYLEN * i)

OutBlockAt(c, i) == ReadBlock(mem, c.output + KEYLEN * i)

(***************************************************************************)
(* C5.  With a length that is a multiple of 16 and the input, output, key  *)
(* and iv buffers pairwise disjoint, AES128_CBC_decrypt_buffer with the    *)
(* same key and IV bytes, applied to what AES128_CBC_encrypt_buffer wrote, *)
(* writes the bytes the input buffer held before the encrypt call.         *)
(***************************************************************************)
C5_CbcRoundTrip ==
  /\ Len(hist) = 2
  /\ hist[1].fn = "CBC_encrypt" /\ hist[2].fn = "CBC_decrypt"
  /\ hist[1].length % KEYLEN = 0 /\ hist[2].length = hist[1].length
  /\ hist[2].input = hist[1].output
  /\ hist[1].key # NULL /\ hist[2].key # NULL
  /\ hist[1].iv # NULL /\ hist[2].iv # NULL
  /\ KeyBlock(hist[2]) = KeyBlock(hist[1])
  /\ IvBlock(hist[2]) = IvBlock(hist[1])
  => ReadBytes(mem, hist[2].output, hist[2].length)
       = ReadBytes(hist[1].pre.mem, hist[1].input, hist[1].length)

C5_Witness ==
  /\ Len(hist) = 2
  /\ hist[1].fn = "CBC_encrypt" /\ hist[2].fn = "CBC_decrypt"
  /\ hist[1].length = 2 * KEYLEN /\ hist[2].length = 2 * KEYLEN
  /\ hist[2].input = hist[1].output
  /\ hist[1].key = KeyB /\ hist[2].key = KeyB
  /\ InBlockAt(hist[1], 0) = Plain1 /\ InBlockAt(hist[1], 1) = Plain2
  /\ OutBlockAt(hist[2], 0) = Plain1 /\ OutBlockAt(hist[2], 1) = Plain2
  /\ InBlockAt(hist[2], 1) # Plain2

(***************************************************************************)
(* C6.  For a length that is a multiple of 16 and non-null key and iv,     *)
(* AES128_CBC_encrypt_buffer leaves in output block i the cipher, under    *)
(* the key, of input block i as it was before the call XOR the output      *)
(* block before it (the IV for block 0).  Key 2b7e1516..., IV 00010203...  *)
(* and plaintext 6bc1bee2... ae2d8a57... give 7649abac... 5086cb9b...      *)
(***************************************************************************)
\* what CBC chains into block i: the IV, or the output block before
ChainBlock(c, i) == IF i = 0 THEN IvBlock(c) ELSE OutBlockAt(c, i - 1)

CbcCipherBlock(c, i) ==
  Cipher(CallRoundKey(c), XorBlock(InBlockAt(c, i), ChainBlock(c, i)))

C6_CbcEncrypt ==
  /\ hist # << >>
  /\ Last.fn = "CBC_encrypt"
  /\ Last.key # NULL /\ Last.iv # NULL
  /\ Last.length % KEYLEN = 0
  => /\ \A i \in 0..((Last.length \div KEYLEN) - 1) :
          OutBlockAt(Last, i) = CbcCipherBlock(Last, i)
     /\ /\ KeyBlock(Last) = FipsKey /\ IvBlock(Last) = CbcIv
        /\ Last.length = 2 * KEYLEN
        /\ InBlockAt(Last, 0) = Plain1 /\ InBlockAt(Last, 1) = Plain2
        => OutBlockAt(Last, 0) = CbcCipher1 /\ OutBlockAt(Last, 1) = CbcCipher2

C6_Witness ==
  /\ Len(hist) = 1
  /\ Last.fn = "CBC_encrypt" /\ Last.length = 2 * KEYLEN
  /\ KeyBlock(Last) = FipsKey /\ IvBlock(Last) = CbcIv
  /\ InBlockAt(Last, 0) = Plain1 /\ InBlockAt(Last, 1) = Plain2
  /\ OutBlockAt(Last, 0) = CbcCipher1 /\ OutBlockAt(Last, 1) = CbcCipher2

(***************************************************************************)
(* C8.  For length = 16 * q + r with 0 < r < 16, AES128_CBC_encrypt_buffer *)
(* chains exactly the q full blocks into output[0 .. 16q) and leaves in    *)
(* output[16q .. 16q + 16) the cipher of the r input bytes followed by     *)
(* 16 - r zero bytes, with no IV; AES128_CBC_decrypt_buffer mirrors this   *)
(* with InvCipher.  The code does not do this: see C8_TailBlock's trace.   *)
(***************************************************************************)
\* the first r bytes of a block, followed by zero bytes
Padded(blk, r) == Tab([k \in 0..15 |-> IF k < r THEN blk[k] ELSE 0])

\* what CBC decryption leaves in block i: InvCipher of input block i XOR the
\* input block before it (the IV for block 0)
CbcPlainBlock(c, i) ==
  XorBlock(InvCipher(CallRoundKey(c), InBlockAt(c, i)),
           IF i = 0 THEN IvBlock(c) ELSE InBlockAt(c, i - 1))

C8_TailBlock ==
  /\ hist # << >>
  /\ Last.fn \in { "CBC_encrypt", "CBC_decrypt" }
  /\ Last.key # NULL /\ Last.iv # NULL
  /\ Last.length % KEYLEN # 0
  => /\ Last.fn = "CBC_encrypt" =>
          /\ \A i \in 0..((Last.length \div KEYLEN) - 1) :
               OutBlockAt(Last, i) = CbcCipherBlock(Last, i)
          /\ OutBlockAt(Last, Last.length \div KEYLEN)
               = Cipher(CallRoundKey(Last),
                        Padded(InBlockAt(Last, Last.length \div KEYLEN),
                               Last.length % KEYLEN))
     /\ Last.fn = "CBC_decrypt" =>
          /\ \A i \in 0..((Last.length \div KEYLEN) - 1) :
               OutBlockAt(Last, i) = CbcPlainBlock(Last, i)
          /\ OutBlockAt(Last, Last.length \div KEYLEN)
               = InvCipher(CallRoundKey(Last),
                           Padded(InBlockAt(Last, Last.length \div KEYLEN),
                                  Last.length % KEYLEN))

(***************************************************************************)
(* Chains.  The caller runs a CBC call with a key and an IV on the first   *)
(* blocks of a buffer, may then write to the key and IV buffers and to the *)
(* buffer of the first call that the chain does not rest on (its input     *)
(* when encrypting, its output when decrypting), and continues with a      *)
(* second call of the same function on the blocks that follow, with null   *)
(* key and null iv.  The caller never writes the first call's output       *)
(* (encrypting) or input (decrypting) between the two calls.               *)
(***************************************************************************)
ChainFirst ==
  \E a \in 1..(MaxBlocks - 1), key \in { KeyA, KeyB } :
    /\ Len(hist) = 0
    /\ \/ AES128_CBC_encrypt_buffer(BufB, BufA, KEYLEN * a, key, IvBuf, ZpTrap)
       \/ AES128_CBC_decrypt_buffer(BufB, BufA, KEYLEN * a, key, IvBuf, ZpTrap)

\* the caller stores the byte v in the n bytes from p on
Scribble(m, p, n, v) == Tab([a \in Addr |-> IF a >= p /\ a < p + n THEN v ELSE m[a]])

\* the buffer of the first call that the chain does not rest on
SpareBuffer(c) == IF c.fn = "CBC_encrypt" THEN c.input ELSE c.output

CallerWrites ==
  /\ Len(hist) = 1
  /\ ~trap
  /\ \/ mem' = Scribble(mem, KeyA, IvBuf + KEYLEN - KeyA, 90)
     \/ mem' = Scribble(mem, SpareBuffer(Last), Last.length, 90)
  /\ UNCHANGED << RoundKey, Key, Iv, trap, hist, sb >>

ChainSecond ==
  \E b \in 1..MaxBlocks :
    /\ Len(hist) = 1
    /\ Last.length + KEYLEN * b <= KEYLEN * MaxBlocks
    /\ \/ /\ Last.fn = "CBC_encrypt"
          /\ AES128_CBC_encrypt_buffer(Last.output + Last.length, Last.input + Last.length,
                                       KEYLEN * b, NULL, NULL, ZpTrap)
       \/ /\ Last.fn = "CBC_decrypt"
          /\ AES128_CBC_decrypt_buffer(Last.output + Last.length, Last.input + Last.length,
                                       KEYLEN * b, NULL, NULL, ZpTrap)

NextChain == ChainFirst \/ CallerWrites \/ ChainSecond

SpecChain == InitCBC /\ [][NextChain]_vars

\* the CBC function of call c run from state st on length bytes with the
\* arguments of c
CbcRun(c, st, length) ==
  IF c.fn = "CBC_encrypt"
  THEN AES128_CBC_encrypt_buffer_fn(st, c.output, c.input, length, c.key, c.iv, ZpTrap)
  ELSE AES128_CBC_decrypt_buffer_fn(st, c.output, c.input, length, c.key, c.iv, ZpTrap)

(***************************************************************************)
(* C7.  A CBC call on 16 * a bytes with key and IV, followed by a call of  *)
(* the same function on the 16 * b bytes after them with null key and null *)
(* iv, produces the bytes that one call with the key and the IV produces   *)
(* on all 16 * (a + b) bytes, when the first call's output (encrypting) or *)
(* input (decrypting) is not written in between.                           *)
(***************************************************************************)
C7_ChainContinues ==
  /\ Len(hist) = 2
  /\ hist[1].fn \in { "CBC_encrypt", "CBC_decrypt" } /\ hist[2].fn = hist[1].fn
  /\ hist[1].key # NULL /\ hist[1].iv # NULL
  /\ hist[2].key = NULL /\ hist[2].iv = NULL
  /\ hist[1].length % KEYLEN = 0 /\ hist[2].length % KEYLEN = 0
  /\ hist[1].length > 0 /\ hist[2].length > 0
  /\ hist[2].output = hist[1].output + hist[1].length
  /\ hist[2].input = hist[1].input + hist[1].length
  => LET whole == CbcRun(hist[1], hist[1].pre, hist[1].length + hist[2].length).mem
         first == CbcRun(hist[1], hist[1].pre, hist[1].length).mem
     IN  /\ ~trap
         /\ ReadBytes(first, hist[1].output, hist[1].length)
              = ReadBytes(whole, hist[1].output, hist[1].length)
         /\ ReadBytes(mem, hist[2].output, hist[2].length)
              = ReadBytes(whole, hist[2].output, hist[2].length)

C7_Witness ==
  /\ Len(hist) = 2
  /\ hist[1].fn = "CBC_encrypt" /\ hist[2].fn = "CBC_encrypt"
  /\ hist[2].key = NULL /\ hist[2].iv = NULL
  /\ hist[1].length = KEYLEN /\ hist[2].length = KEYLEN
  /\ KeyBlock(hist[1]) = FipsKey /\ IvBlock(hist[1]) = CbcIv
  /\ InBlockAt(hist[1], 0) = Plain1 /\ InBlockAt(hist[1], 1) = Plain2
  /\ hist[2].pre.mem[KeyA] = 90
  /\ ReadBlock(mem, hist[2].output) = CbcCipher2
  /\ ReadBlock(mem, hist[1].output) = CbcCipher1

(***************************************************************************)
(* Null key or iv on the first call.  Nothing has installed a key or an IV *)
(* yet: RoundKey holds zero bytes and Iv is null.  A read through the null *)
(* Iv is undefined: it faults, or it yields the bytes NullReads lists.     *)
(***************************************************************************)
NullReads ==
  { ZpTrap, [trap |-> FALSE, bytes |-> ZeroBlock], [trap |-> FALSE, bytes |-> OnesBlock] }

NullArgs ==
  { [key |-> NULL, iv |-> IvBuf], [key |-> KeyA, iv |-> NULL], [key |-> NULL, iv |-> NULL] }

NullEncryptCall ==
  \E length \in FullLengths, a \in NullArgs, zp \in NullReads :
    /\ Len(hist) = 0
    /\ AES128_CBC_encrypt_buffer(BufB, BufA, length, a.key, a.iv, zp)

NullDecryptCall ==
  \E length \in FullLengths, a \in NullArgs, zp \in NullReads :
    /\ Len(hist) = 0
    /\ AES128_CBC_decrypt_buffer(BufB, BufA, length, a.key, a.iv, zp)

NextNull == NullEncryptCall \/ NullDecryptCall

SpecNull == InitCBC /\ [][NextNull]_vars

(***************************************************************************)
(* C9.  A CBC call with a null key or a null iv, when no earlier call has  *)
(* installed a key or an IV, is rejected: it does not fault and it         *)
(* transforms no block (the output bytes are what they were before the     *)
(* call).  The code does not do this: see C9_NullRejected's trace.         *)
(***************************************************************************)
C9_NullRejected ==
  /\ hist # << >>
  /\ Last.fn \in { "CBC_encrypt", "CBC_decrypt" }
  /\ \/ Last.key = NULL /\ Last.pre.Key = NULL
     \/ Last.iv = NULL /\ Last.pre.Iv = NULL
  /\ Last.length > 0
  => /\ ~trap
     /\ ReadBytes(mem, Last.output, Last.length)
          = ReadBytes(Last.pre.mem, Last.output, Last.length)

(***************************************************************************)
(* C11.  After AES128_CBC_encrypt_buffer with a length that is a multiple  *)
(* of 16, non-null key and iv, and input, output, key and iv buffers       *)
(* pairwise disjoint, input block i holds the block it held before the     *)
(* call XOR the output block before it (the IV for block 0).               *)
(* AES128_CBC_decrypt_buffer with disjoint buffers leaves every byte of    *)
(* its input buffer as it was.                                             *)
(***************************************************************************)
\* block i of the call's input buffer as the call has left it
InBlockNow(c, i) == ReadBlock(mem, c.input + KEYLEN * i)

C11_InputMutated ==
  /\ hist # << >>
  /\ Last.key # NULL /\ Last.iv # NULL
  => /\ Last.fn = "CBC_encrypt" /\ Last.length % KEYLEN = 0 =>
          \A i \in 0..((Last.length \div KEYLEN) - 1) :
            InBlockNow(Last, i) = XorBlock(InBlockAt(Last, i), ChainBlock(Last, i))
     /\ Last.fn = "CBC_decrypt" =>
          ReadBytes(mem, Last.input, Cap) = ReadBytes(Last.pre.mem, Last.input, Cap)

C11_Witness ==
  /\ Len(hist) = 1
  /\ Last.fn = "CBC_encrypt" /\ Last.length = 2 * KEYLEN
  /\ KeyBlock(Last) = FipsKey /\ IvBlock(Last) = CbcIv
  /\ InBlockAt(Last, 0) = Plain1 /\ InBlockAt(Last, 1) = Plain2
  /\ InBlockNow(Last, 0) = XorBlock(Plain1, CbcIv)
  /\ InBlockNow(Last, 1) = XorBlock(Plain2, CbcCipher1)
  /\ InBlockNow(Last, 0) # Plain1 /\ InBlockNow(Last, 1) # Plain2

(***************************************************************************)
(* The forward cipher, statement by statement.  The caller makes one       *)
(* AES128_ECB_encrypt call, built with one of the blocks Seeds in place of *)
(* the rng array.  The state is the block at the call's output, where      *)
(* Cipher works in place; sb holds the mask bytes statem (sb.m), the round *)
(* counter and the statement Cipher is at:                                 *)
(*   "mask"   the loop that adds the mask                                  *)
(*   "ark"    AddRoundKey(state, round)                                    *)
(*   "sub"    SubBytesm(state, statem)                                     *)
(*   "shift"  ShiftRows(state); ShiftRows(statem)                          *)
(*   "mix"    MixColumns(state); MixColumns(statem)                        *)
(*   "unmask" the loop that removes the mask                               *)
(*   "done"   Cipher has returned                                          *)
(***************************************************************************)
InitRounds ==
  \E key \in EcbKeys, text \in MaskTexts :
    Fresh(InitMem(key, OtherIv, CbcIv, Bytes(text), 0)) /\ sb = SbIdle

\* the program state st and Cipher entered with the mask bytes seed
CipherEntered(st, seed) ==
  /\ mem' = st.mem
  /\ RoundKey' = st.RoundKey
  /\ Key' = st.Key
  /\ Iv' = st.Iv
  /\ trap' = st.trap
  /\ sb' = [pc |-> "mask", round |-> 0, m |-> seed]

\* BlockCopy(output, input); Key = key; KeyExpansion(); and the call of Cipher
CipherCall ==
  \E seed \in Seeds :
    /\ hist = << >>
    /\ CipherEntered(SetKey(CopyBlock(Machine, BufB, BufA), KeyA), seed)
    /\ hist' = Append(hist, Call("ECB_encrypt", BufB, BufA, KEYLEN, KeyA, NULL, seed))

\* Cipher has been called and is at statement pc
CipherIsAt(pc) == hist # << >> /\ sb.pc = pc

\* the state block and the masked state [s, m] of the running Cipher
CipherState == ReadBlock(mem, Last.output)

CipherShares == [s |-> CipherState, m |-> sb.m]

\* the running Cipher moves on to statement pc of round round with the
\* masked state sm
CipherStep(sm, pc, round) ==
  /\ mem' = WriteBlock(mem, Last.output, sm.s)
  /\ sb' = [pc |-> pc, round |-> round, m |-> sm.m]
  /\ UNCHANGED << RoundKey, Key, Iv, trap, hist >>

\* (*state)[i][j] ^= (*statem)[i][j], for all i, j: statem stays as it is
MaskXor(sm) == [s |-> XorBlock(sm.s, sm.m), m |-> sm.m]

\* AddRoundKey(state, round): statem stays as it is
MaskedAddRoundKey(rk, sm, round) == [s |-> AddRoundKey(rk, sm.s, round), m |-> sm.m]

\* ShiftRows on the state only
MaskedShiftRows_stateonly(sm) == [s |-> ShiftRows(sm.s), m |-> sm.m]

\* ShiftRows(state); ShiftRows(statem);
MaskedShiftRows(sm) == [s |-> ShiftRows(sm.s), m |-> ShiftRows(sm.m)]

\* MixColumns(state); MixColumns(statem);
MaskedMixColumns(sm) == [s |-> MixColumns(sm.s), m |-> MixColumns(sm.m)]

CipherAddMask ==
  /\ CipherIsAt("mask")
  /\ CipherStep(MaskXor(CipherShares), "ark", 0)

CipherAddRoundKey ==
  /\ CipherIsAt("ark")
  /\ CipherStep(MaskedAddRoundKey(RoundKey, CipherShares, sb.round),
                IF sb.round < Nr THEN "sub" ELSE "unmask",
                IF sb.round < Nr THEN sb.round + 1 ELSE sb.round)

CipherSubBytesm ==
  /\ CipherIsAt("sub")
  /\ CipherStep(SubBytesm(CipherState, sb.m), "shift", sb.round)

CipherShiftRows ==
  /\ CipherIsAt("shift")
  /\ CipherStep(MaskedShiftRows(CipherShares),
                IF sb.round < Nr THEN "mix" ELSE "ark", sb.round)

CipherMixColumns ==
  /\ CipherIsAt("mix")
  /\ CipherStep(MaskedMixColumns(CipherShares), "ark", sb.round)

CipherRemoveMask ==
  /\ CipherIsAt("unmask")
  /\ CipherStep(MaskXor(CipherShares), "done", sb.round)

NextRounds ==
  \/ CipherCall
  \/ CipherAddMask
  \/ CipherAddRoundKey
  \/ CipherSubBytesm
  \/ CipherShiftRows
  \/ CipherMixColumns
  \/ CipherRemoveMask

SpecRounds == InitRounds /\ [][NextRounds]_vars

(***************************************************************************)
(* C12.  At each round boundary of the forward Cipher (after the mask is   *)
(* added, after AddRoundKey(0), after each of rounds 1..9 and after the    *)
(* AddRoundKey(10) of the final round) the state XOR the mask, bytewise,   *)
(* is the state that AES-128 without a mask (SubBytes by the sbox table,   *)
(* ShiftRows, MixColumns, AddRoundKey) has at that boundary; and           *)
(* AddRoundKey leaves the mask as it is.                                   *)
(***************************************************************************)
\* the state of AES-128 without a mask after round n (n = 0: after the
\* first AddRoundKey; n = Nr: the round without MixColumns)
RECURSIVE PlainRounds(_, _, _)
PlainRounds(rk, state, n) ==
  IF n = 0 THEN AddRoundKey(rk, state, 0)
  ELSE IF n < Nr
  THEN AddRoundKey(rk, MixColumns(ShiftRows(SubBytes(PlainRounds(rk, state, n - 1)))), n)
  ELSE AddRoundKey(rk, ShiftRows(SubBytes(PlainRounds(rk, state, n - 1))), n)

\* state XOR mask of the running Cipher
Unmasked == XorBlock(CipherState, sb.m)

MaskingInvariant ==
  hist # << >> =>
    /\ sb.pc = "ark" /\ sb.round = 0 => Unmasked = InBlock(Last)
    /\ sb.pc = "sub" =>
         Unmasked = PlainRounds(CallRoundKey(Last), InBlock(Last), sb.round - 1)
    /\ sb.pc = "unmask" =>
         Unmasked = PlainRounds(CallRoundKey(Last), InBlock(Last), Nr)

AddRoundKeyKeepsMask ==
  hist # << >> /\ sb.pc = "ark" => sb'.m = sb.m

C12_MaskingInvariant == []MaskingInvariant /\ [][AddRoundKeyKeepsMask]_vars

C12_Witness ==
  /\ CipherIsAt("unmask")
  /\ Last.seed = RngBlock
  /\ KeyBlock(Last) = FipsKey /\ InBlock(Last) = Plain1
  /\ sb.m # RngBlock
  /\ CipherState # EcbCipher1
  /\ Unmasked = EcbCipher1

(***************************************************************************)
(* The masked AND gadget on its own: _SAND is called once with the shares  *)
(* p1, p2 of one operand and q1, q2 of the other.  The gadget works on the *)
(* eight bit lanes of its bytes separately; the bytes of LaneBytes put     *)
(* every combination of four bits in every lane, and mix the lanes.        *)
(***************************************************************************)
LaneBytes == { 0, 255, 15, 240, 51, 204, 85, 170, 1, 128, 99, 27 }

InitSand ==
  /\ Fresh(InitMem(FipsKey, OtherKey, CbcIv, Bytes(Plain1), 0))
  /\ sb \in [p1 : LaneBytes, p2 : LaneBytes, q1 : LaneBytes, q2 : LaneBytes,
             z : {0}, m : {0}, done : {FALSE}]

\* the call's arguments with *zr = r.z and *zrm = r.m stored
SandDone(s, r) == [s EXCEPT !.z = r.z, !.m = r.m, !.done = TRUE]

SandCall ==
  /\ ~sb.done
  /\ sb' = SandDone(sb, SAND(sb.p1, sb.p2, sb.q1, sb.q2))
  /\ UNCHANGED << mem, RoundKey, Key, Iv, trap, hist >>

NextSand == SandCall

SpecSand == InitSand /\ [][NextSand]_vars

(***************************************************************************)
(* C13.  For the shares p1, p2, q1, q2, the bytes z and m that _SAND       *)
(* stores satisfy, in each of the eight bit lanes,                         *)
(* z XOR m = (p1 XOR p2) AND (q1 XOR q2).                                  *)
(***************************************************************************)
\* bit k of the byte x
Lane(x, k) == (x \div Pow2[k + 1]) % 2

C13_SandContract ==
  sb.done =>
    \A k \in 0..7 :
      (Lane(sb.z, k) + Lane(sb.m, k)) % 2
        = ((Lane(sb.p1, k) + Lane(sb.p2, k)) % 2) * ((Lane(sb.q1, k) + Lane(sb.q2, k)) % 2)

C13_Witness ==
  /\ sb.done
  /\ sb.p1 = 99 /\ sb.p2 = 170 /\ sb.q1 = 27 /\ sb.q2 = 240
  /\ sb.m # 0 /\ sb.z # 0
  /\ Xor(sb.z, sb.m) = And(Xor(99, 170), Xor(27, 240))
  /\ Xor(sb.z, sb.m) # 0

(***************************************************************************)
(* The output mapping of the masked S-box circuit.  getSBoxValuem runs on  *)
(* the shares num, numm in two steps: the statements up to the assignment  *)
(* of L29m, then the sixteen assignments to the output lanes U_7 .. U_0m.  *)
(* sb.e holds the locals before the output mapping and sb.u the locals     *)
(* after it.                                                               *)
(***************************************************************************)
\* the byte with the locals as e and u, at position pc of getSBoxValuem
SbAt(s, pc, e, u) == [num |-> s.num, numm |-> s.numm, pc |-> pc, e |-> e, u |-> u]

InitLanes ==
  /\ Fresh(InitMem(FipsKey, OtherKey, CbcIv, Bytes(Plain1), 0))
  /\ \E num \in LaneBytes, numm \in LaneBytes :
       sb = [num |-> num, numm |-> numm, pc |-> "entry",
             e |-> SboxLocals(num, numm), u |-> SboxLocals(num, numm)]

\* the statements before the output mapping
SboxCircuit ==
  /\ sb.pc = "entry"
  /\ sb' = SbAt(sb, "output", SboxRun(sb.e, 1, SboxSteps), sb.u)
  /\ UNCHANGED << mem, RoundKey, Key, Iv, trap, hist >>

\* the output mapping
SboxOutput ==
  /\ sb.pc = "output"
  /\ sb' = SbAt(sb, "done", sb.e, SboxStep(SboxSteps, sb.e))
  /\ UNCHANGED << mem, RoundKey, Key, Iv, trap, hist >>

NextLanes == SboxCircuit \/ SboxOutput

SpecLanes == InitLanes /\ [][NextLanes]_vars

\* Output bit k: the value lane u is assigned from the value lanes a and b,
\* and the mask lane um from the mask lanes am and bm.
OutputLanes ==
  [k \in 0..7 |->
    << [u |-> "U_0", a |-> "L6", b |-> "L23", um |-> "U_0m", am |-> "L6m", bm |-> "L23m"],
       [u |-> "U_1", a |-> "L13", b |-> "L27", um |-> "U_1m", am |-> "L13m", bm |-> "L27m"],
       [u |-> "U_2", a |-> "L25", b |-> "L29", um |-> "U_2m", am |-> "L25m", bm |-> "L29m"],
       [u |-> "U_3", a |-> "L20", b |-> "L22", um |-> "U_3m", am |-> "L20m", bm |-> "L22m"],
       [u |-> "U_4", a |-> "L6", b |-> "L21", um |-> "U_4m", am |-> "L6m", bm |-> "L21m"],
       [u |-> "U_5", a |-> "L19", b |-> "L28", um |-> "U_5m", am |-> "L19m", bm |-> "L28m"],
       [u |-> "U_6", a |-> "L16", b |-> "L26", um |-> "U_6m", am |-> "L16m", bm |-> "L26m"],
       [u |-> "U_7", a |-> "L6", b |-> "L24", um |-> "U_7m", am |-> "L6m", bm |-> "L24m"]
    >>[k + 1]]

\* the output bits whose value lane is the complement of a XOR b, those
\* whose value lane is a XOR b, and the same for the mask lanes
ValueComplemented ==
  { k \in 0..7 : sb.u[OutputLanes[k].u]
                   = 255 - Xor(sb.e[OutputLanes[k].a], sb.e[OutputLanes[k].b]) }

ValuePlain ==
  { k \in 0..7 : sb.u[OutputLanes[k].u]
                   = Xor(sb.e[OutputLanes[k].a], sb.e[OutputLanes[k].b]) }

MaskComplemented ==
  { k \in 0..7 : sb.u[OutputLanes[k].um]
                   = 255 - Xor(sb.e[OutputLanes[k].am], sb.e[OutputLanes[k].bm]) }

MaskPlain ==
  { k \in 0..7 : sb.u[OutputLanes[k].um]
                   = Xor(sb.e[OutputLanes[k].am], sb.e[OutputLanes[k].bm]) }

(***************************************************************************)
(* C14, as the specification states it.  In the output mapping five of the *)
(* eight output bits receive a complement on the value lane, and no output *)
(* bit receives one on the mask lane.  The code complements four.          *)
(***************************************************************************)
C14_FiveComplemented ==
  sb.pc = "done" =>
    /\ Cardinality(ValueComplemented) = 5
    /\ MaskComplemented = {}

(***************************************************************************)
(* C14, amended.  In the output mapping four of the eight output bits,     *)
(* U_0, U_1, U_5 and U_6, receive a complement on the value lane, the      *)
(* other four (U_2, U_3, U_4, U_7) receive none, and no output bit         *)
(* receives a complement on the mask lane.                                 *)
(***************************************************************************)
C14_FourComplemented ==
  sb.pc = "done" =>
    /\ ValueComplemented = { 0, 1, 5, 6 }
    /\ ValuePlain = { 2, 3, 4, 7 }
    /\ MaskComplemented = {}
    /\ MaskPlain = 0..7

C14_Witness ==
  /\ sb.pc = "done"
  /\ sb.num = 99 /\ sb.numm = 170
  /\ Cardinality(ValueComplemented) = 4
  /\ SboxPack(sb.u) = getSBoxValuem(99, 170)
  /\ Xor(SboxPack(sb.u).t, SboxPack(sb.u).tm) = sbox[Xor(99, 170) + 1]

(***************************************************************************)
(* Mixed calls.  The caller makes MaxCalls + 1 calls, each one any of the  *)
(* four public functions, from one data buffer into the next (the buffers  *)
(* taken in a ring).  An ECB call passes either key; a CBC call passes the *)
(* first key or null, the IV buffer, and a length of one block.            *)
(***************************************************************************)
MixCalls == MaxCalls + 1

MixEcbKeys == { KeyA, KeyB }

MixCbcKeys == { KeyA, NULL }

\* the input and the output buffer of the next call
MixInput == DataBuf(Len(hist) % (MaxCalls + 1))

MixOutput == DataBuf((Len(hist) + 1) % (MaxCalls + 1))

InitMix == Fresh(InitMem(FipsKey, OtherKey, CbcIv, Bytes(Plain1), 0)) /\ sb = SbIdle

MixEcbEncrypt ==
  \E key \in MixEcbKeys :
    /\ Len(hist) < MixCalls
    /\ AES128_ECB_encrypt(MixInput, key, MixOutput)

MixEcbDecrypt ==
  \E key \in MixEcbKeys :
    /\ Len(hist) < MixCalls
    /\ AES128_ECB_decrypt(MixInput, key, MixOutput)

MixCbcEncrypt ==
  \E key \in MixCbcKeys :
    /\ Len(hist) < MixCalls
    /\ AES128_CBC_encrypt_buffer(MixOutput, MixInput, KEYLEN, key, IvBuf, ZpTrap)

MixCbcDecrypt ==
  \E key \in MixCbcKeys :
    /\ Len(hist) < MixCalls
    /\ AES128_CBC_decrypt_buffer(MixOutput, MixInput, KEYLEN, key, IvBuf, ZpTrap)

NextMix == MixEcbEncrypt \/ MixEcbDecrypt \/ MixCbcEncrypt \/ MixCbcDecrypt

SpecMix == InitMix /\ [][NextMix]_vars

(***************************************************************************)
(* C15.  After any sequence of calls, RoundKey is the expansion of the key *)
(* bytes of the most recent call that passed a non-null key.  So the block *)
(* an ECB call leaves is the cipher (encrypt) or inverse cipher (decrypt)  *)
(* of its input block under its own key, whatever calls came before; and a *)
(* CBC call with a null key that follows an ECB call works under that ECB  *)
(* call's key.                                                             *)
(***************************************************************************)
\* the calls so far that passed a key, and the last of them
Keyed == { i \in 1..Len(hist) : hist[i].key # NULL }

LastKeyed == hist[CHOOSE i \in Keyed : \A j \in Keyed : j <= i]

IsEcb(c) == c.fn \in { "ECB_encrypt", "ECB_decrypt" }

\* the block a one-block CBC call leaves under the round keys rk
CbcBlockUnder(c, rk) ==
  IF c.fn = "CBC_encrypt"
  THEN Cipher(rk, XorBlock(InBlock(c), IvBlock(c)))
  ELSE XorBlock(InvCipher(rk, InBlock(c)), IvBlock(c))

C15_RoundKeyOfLastKey ==
  /\ Keyed # {} => RoundKey = CallRoundKey(LastKeyed)
  /\ hist # << >> /\ Last.fn = "ECB_encrypt" =>
       OutBlock(Last) = Cipher(CallRoundKey(Last), InBlock(Last))
  /\ hist # << >> /\ Last.fn = "ECB_decrypt" =>
       OutBlock(Last) = InvCipher(CallRoundKey(Last), InBlock(Last))
  /\ /\ Len(hist) >= 2
     /\ ~IsEcb(Last) /\ Last.key = NULL
     /\ IsEcb(hist[Len(hist) - 1])
     => OutBlock(Last) = CbcBlockUnder(Last, CallRoundKey(hist[Len(hist) - 1]))

C15_Witness ==
  /\ Len(hist) = 3
  /\ hist[1].fn = "CBC_encrypt" /\ hist[1].key = KeyA
  /\ hist[2].fn = "ECB_decrypt" /\ hist[2].key = KeyB
  /\ hist[3].fn = "CBC_encrypt" /\ hist[3].key = NULL
  /\ KeyBlock(hist[2]) = OtherKey /\ KeyBlock(hist[1]) = FipsKey
  /\ RoundKey = KeyExpansion(ZeroRoundKey, OtherKey)
  /\ RoundKey # KeyExpansion(ZeroRoundKey, FipsKey)
  /\ OutBlock(Last) = Cipher(KeyExpansion(ZeroRoundKey, OtherKey),
                             XorBlock(InBlock(Last), CbcIv))

(***************************************************************************)
(* C16.  For a length that is a multiple of 16, zero included, a CBC call  *)
(* writes no byte of the caller's memory other than the first length bytes *)
(* of its output buffer (and, through XorWithIv, of its input buffer), and *)
(* with length = 0 the output buffer holds what it held before the call.   *)
(* The code does not do this: see C16_WithinLength's trace.                *)
(***************************************************************************)
\* address a lies in the n bytes from p on
Within(a, p, n) == a >= p /\ a < p + n

C16_WithinLength ==
  /\ hist # << >>
  /\ Last.fn \in { "CBC_encrypt", "CBC_decrypt" }
  /\ Last.key # NULL /\ Last.iv # NULL
  /\ Last.length % KEYLEN = 0
  => /\ \A a \in Addr :
          /\ ~Within(a, Last.output, Last.length)
          /\ ~Within(a, Last.input, Last.length)
          => mem[a] = Last.pre.mem[a]
     /\ Last.length = 0 =>
          ReadBytes(mem, Last.output, Cap) = ReadBytes(Last.pre.mem, Last.output, Cap)

====
